---- MODULE Spec2Model ----
(***************************************************************************)
(* Klondike solitaire: the table model of src/klondike.rs and the move     *)
(* generator, heuristic and backtracking search of                         *)
(* src/bin/klondike_solver.rs.                                             *)
(*                                                                         *)
(* The deck is scaled: ranks run Ace..King with King = NumRanks (13 in the *)
(* program), there are NumTableaux tableaux (7 in the program) and the     *)
(* seeded shuffle of the rand crate is an LCG-driven Fisher-Yates shuffle  *)
(* over the seeds 0..MaxSeed.  Indices are 0-based as in the program; the  *)
(* card at index i of a pile is cards[i + 1].                              *)
(***************************************************************************)
EXTENDS Integers, Sequences, FiniteSets, TLC

VARIABLES
    table,          \* the table in play; in a search, the root table
    pc,             \* "play", or the search's position: "loop", "exit", "done"
    search_nodes,   \* test_plays_iter: the frame stack
    tables,         \* test_plays_iter: the set of tables seen
    iterations,     \* test_plays_iter: the loop counter
    outcome,        \* what the search has reported so far
    reported        \* the plays printed with a win

vars == <<table, pc, search_nodes, tables, iterations, outcome, reported>>

\* ---------------------------------------------------------------- bounds
NumRanks == 3
NumTableaux == 3
MaxSeed == 5
MaxSearchSeed == 52
IterationCap == 274
MaxCursorPlays == 3
MaxPathSeed == 1

\* an absent Option<usize>
None == -1

\* an absent Option<Source> / Option<Play> / Option<SearchNode>
Nothing == [none |-> TRUE]

\* ------------------------------------------------------------- StackId
Stock == 0
Waste == 1
Foundation1 == 2
Foundation2 == 3
Foundation3 == 4
Foundation4 == 5
Tableau1 == 6
LastTableau == Tableau1 + NumTableaux - 1
Hand == LastTableau + 1

FOUNDATIONS == Foundation1..Foundation4
TABLEAUX == Tableau1..LastTableau
StackIds == Stock..Hand

is_foundation(id) == id \in FOUNDATIONS

is_tableau(id) == id \in TABLEAUX

\* StackId::next_impl: Tableau7 wraps to Stock or ends, Hand stays Hand
next_impl(id, wrap) ==
    IF id = Hand THEN Hand
    ELSE IF id = LastTableau THEN (IF wrap THEN Stock ELSE None)
    ELSE id + 1

next_no_wrap(id) == next_impl(id, FALSE)

next(id) == next_impl(id, TRUE)

previous(id) ==
    IF id = Hand THEN Hand
    ELSE IF id = Stock THEN LastTableau
    ELSE id - 1

\* StackType of a StackId, as Table::new tags the piles
stack_type(id) ==
    IF id = Stock THEN "Stock"
    ELSE IF id = Waste THEN "Waste"
    ELSE IF is_foundation(id) THEN "Foundation"
    ELSE IF is_tableau(id) THEN "Tableau"
    ELSE "Hand"

\* ---------------------------------------------------------------- cards
Ace == 1
King == NumRanks
Queen == King - 1
Ranks == Ace..King

\* Suit, in declaration (enumeration) order
SuitOrder == <<"Diamond", "Club", "Heart", "Spade">>
Suits == {"Diamond", "Club", "Heart", "Spade"}

color(suit) == IF suit \in {"Diamond", "Heart"} THEN "Red" ELSE "Black"

DeckSize == Len(SuitOrder) * NumRanks

is_same_color(self, other) == color(self.suit) = color(other.suit)

is_one_below(self, other) == other.rank - self.rank = 1

\* --------------------------------------------------------------- stacks
Min(a, b) == IF a < b THEN a ELSE b

Reverse(s) == [i \in 1..Len(s) |-> s[Len(s) + 1 - i]]

\* Vec::split_off(at): the prefix that stays and the suffix that leaves
Prefix(cards, at) == SubSeq(cards, 1, at)

Suffix(cards, at) == SubSeq(cards, at + 1, Len(cards))

top_card(cards) == cards[Len(cards)]

bottom_card(cards) == cards[1]

\* mutant: the bottom card is exposed in place of the top card
expose_top_card_Bottom(cards) ==
    IF cards # <<>>
    THEN [cards EXCEPT ![1].face_up = TRUE]
    ELSE cards

expose_top_card(cards) ==
    IF cards # <<>>
    THEN [cards EXCEPT ![Len(cards)].face_up = TRUE]
    ELSE cards

\* mutant: the top card is left as it lies
flip_top_card_Keep(cards) ==
    cards

flip_top_card(cards) ==
    IF cards # <<>>
    THEN [cards EXCEPT ![Len(cards)].face_up = ~cards[Len(cards)].face_up]
    ELSE cards

\* the lowest index in from..Len-1 holding a face-up card, or None
FirstFaceUp(cards, from) ==
    LET hits == {i \in from..(Len(cards) - 1) : cards[i + 1].face_up}
    IN  IF hits = {} THEN None
        ELSE CHOOSE i \in hits : \A j \in hits : i <= j

\* mutant: the suit is not compared
stack_find_card_RankOnly(cards, rank, suit) ==
    LET hits == {i \in 0..(Len(cards) - 1) : cards[i + 1].rank = rank}
    IN  IF hits = {} THEN None
        ELSE CHOOSE i \in hits : \A j \in hits : i <= j

\* Stack::find_card: the first index holding (rank, suit), or None
stack_find_card(cards, rank, suit) ==
    LET hits == {i \in 0..(Len(cards) - 1) :
                    cards[i + 1].rank = rank /\ cards[i + 1].suit = suit}
    IN  IF hits = {} THEN None
        ELSE CHOOSE i \in hits : \A j \in hits : i <= j

\* mutant: a Tableau's next card is active whether face-up or not
next_active_card_AnyFace(id, cards, start) ==
    IF cards = <<>> \/ stack_type(id) = "Stock" THEN None
    ELSE LET max_index == Len(cards) - 1
             index == IF start # None THEN start + 1 ELSE 0
         IN  IF index <= max_index
             THEN IF stack_type(id) \in {"Stock", "Foundation", "Waste"}
                  THEN max_index
                  ELSE index
             ELSE None

\* Stack::next_active_card(start_index), start = None or Some(index)
next_active_card(id, cards, start) ==
    IF cards = <<>> \/ stack_type(id) = "Stock" THEN None
    ELSE LET max_index == Len(cards) - 1
             index == IF start # None THEN start + 1 ELSE 0
         IN  IF index <= max_index
             THEN IF stack_type(id) \in {"Stock", "Foundation", "Waste"}
                  THEN max_index
                  ELSE FirstFaceUp(cards, index)
             ELSE None

\* Stack::is_top_face_up_card: index is the lowest face-up card of the pile
is_top_face_up_card(cards, index) ==
    IF cards = <<>> THEN FALSE
    ELSE LET first == FirstFaceUp(cards, 0)
         IN  first # None /\ first = index

\* mutant: a Foundation that holds cards takes any card of its suit
foundation_can_accept_card_AnyRank(id, cards, card) ==
    IF cards = <<>>
    THEN IF card.rank = Ace
         THEN IF id = Foundation1 THEN card.suit = "Spade"
              ELSE IF id = Foundation2 THEN card.suit = "Club"
              ELSE IF id = Foundation3 THEN card.suit = "Heart"
              ELSE IF id = Foundation4 THEN card.suit = "Diamond"
              ELSE FALSE
         ELSE FALSE
    ELSE card.suit = top_card(cards).suit

\* mutant: an empty Foundation takes the Ace of any suit
foundation_can_accept_card_AnyAce(id, cards, card) ==
    IF cards = <<>>
    THEN card.rank = Ace
    ELSE IF card.suit = top_card(cards).suit
         THEN is_one_below(top_card(cards), card)
         ELSE FALSE

foundation_can_accept_card(id, cards, card) ==
    IF cards = <<>>
    THEN IF card.rank = Ace
         THEN IF id = Foundation1 THEN card.suit = "Spade"
              ELSE IF id = Foundation2 THEN card.suit = "Club"
              ELSE IF id = Foundation3 THEN card.suit = "Heart"
              ELSE IF id = Foundation4 THEN card.suit = "Diamond"
              ELSE FALSE
         ELSE FALSE
    ELSE IF card.suit = top_card(cards).suit
         THEN is_one_below(top_card(cards), card)
         ELSE FALSE

\* mutant: the ranks are not compared
tableau_can_accept_card_AnyRank(cards, card) ==
    IF cards # <<>>
    THEN ~is_same_color(top_card(cards), card)
    ELSE card.rank = King

\* mutant: the colours are not compared
tableau_can_accept_card_AnyColor(cards, card) ==
    IF cards # <<>>
    THEN is_one_below(card, top_card(cards))
    ELSE card.rank = King

tableau_can_accept_card(cards, card) ==
    IF cards # <<>>
    THEN IF ~is_same_color(top_card(cards), card)
         THEN is_one_below(card, top_card(cards))
         ELSE FALSE
    ELSE card.rank = King

\* mutant: the Waste takes any single card
can_play_card_WasteTakes(id, cards, card, moving_cards_count) ==
    IF stack_type(id) = "Foundation"
    THEN moving_cards_count = 1 /\ foundation_can_accept_card(id, cards, card)
    ELSE IF stack_type(id) = "Tableau"
    THEN tableau_can_accept_card(cards, card)
    ELSE stack_type(id) = "Waste" /\ moving_cards_count = 1

\* mutant: a Foundation takes the bottom card of a run of any length
can_play_card_AnyCount(id, cards, card, moving_cards_count) ==
    IF stack_type(id) = "Foundation"
    THEN foundation_can_accept_card(id, cards, card)
    ELSE IF stack_type(id) = "Tableau"
    THEN tableau_can_accept_card(cards, card)
    ELSE FALSE

can_play_card(id, cards, card, moving_cards_count) ==
    IF stack_type(id) = "Foundation"
    THEN moving_cards_count = 1 /\ foundation_can_accept_card(id, cards, card)
    ELSE IF stack_type(id) = "Tableau"
    THEN tableau_can_accept_card(cards, card)
    ELSE FALSE

\* ----------------------------------------------------------------- deck
\* the deck before the shuffle: suits in declaration order, ranks ascending
BaseDeck ==
    [i \in 1..DeckSize |->
        [suit |-> SuitOrder[((i - 1) \div NumRanks) + 1],
         rank |-> ((i - 1) % NumRanks) + 1,
         face_up |-> FALSE]]

\* the seeded generator behind the shuffle: a linear congruential step
Lcg(state) == (state * 75 + 74) % 65537

Swap(cards, i, j) == [cards EXCEPT ![i] = cards[j], ![j] = cards[i]]

\* SliceRandom::shuffle: for i from the last index down to 1, swap card i
\* with a card drawn from 0..i
RECURSIVE Shuffle(_, _, _)
Shuffle(cards, i, state) ==
    IF i < 1 THEN cards
    ELSE Shuffle(Swap(cards, i + 1, (Lcg(state) % (i + 1)) + 1), i - 1, Lcg(state))

make_deck(seed) == Shuffle(BaseDeck, DeckSize - 1, seed + 1)

\* the number of cards one deal moves
DealAmount == 3

\* ---------------------------------------------------------------- table
get_stack(t, id) ==
    IF id = Stock THEN t.stock
    ELSE IF id = Waste THEN t.waste
    ELSE IF is_foundation(id) THEN t.foundations[id - Foundation1 + 1]
    ELSE IF is_tableau(id) THEN t.tableaux[id - Tableau1 + 1]
    ELSE t.in_hand

\* mutant: Tableau1 is mapped onto the first Foundation
set_stack_Tableau1Slip(t, id, cards) ==
    IF id = Stock THEN [t EXCEPT !.stock = cards]
    ELSE IF id = Waste THEN [t EXCEPT !.waste = cards]
    ELSE IF is_foundation(id)
    THEN [t EXCEPT !.foundations[id - Foundation1 + 1] = cards]
    ELSE IF id = Tableau1
    THEN [t EXCEPT !.foundations[1] = cards]
    ELSE IF is_tableau(id)
    THEN [t EXCEPT !.tableaux[id - Tableau1 + 1] = cards]
    ELSE [t EXCEPT !.in_hand = cards]

\* get_stack_mut followed by an assignment of the pile's cards
set_stack(t, id, cards) ==
    IF id = Stock THEN [t EXCEPT !.stock = cards]
    ELSE IF id = Waste THEN [t EXCEPT !.waste = cards]
    ELSE IF is_foundation(id)
    THEN [t EXCEPT !.foundations[id - Foundation1 + 1] = cards]
    ELSE IF is_tableau(id)
    THEN [t EXCEPT !.tableaux[id - Tableau1 + 1] = cards]
    ELSE [t EXCEPT !.in_hand = cards]

\* the cards Table::new leaves for the Stock after dealing tableaux 1..k
RECURSIVE DealRest(_, _)
DealRest(cards, k) ==
    IF k = 0 THEN cards
    ELSE Prefix(DealRest(cards, k - 1), Len(DealRest(cards, k - 1)) - k)

\* Table::new: tableau k takes the last k cards left and flips its top card
new_table(seed) ==
    LET cards == make_deck(seed)
        stock == DealRest(cards, NumTableaux)
    IN  [stock |-> stock,
         waste |-> <<>>,
         in_hand |-> <<>>,
         foundations |-> [f \in 1..4 |-> <<>>],
         tableaux |-> [k \in 1..NumTableaux |->
                         flip_top_card(Suffix(DealRest(cards, k - 1),
                                              Len(DealRest(cards, k - 1)) - k))],
         source |-> [stack |-> Stock,
                     index |-> IF next_active_card(Stock, stock, None) # None
                               THEN next_active_card(Stock, stock, None)
                               ELSE 0],
         target |-> Stock]

has_cards_in_stock(t) == Len(t.stock) > 0

has_cards_in_waste(t) == Len(t.waste) > 0

cards_in_hand(t) == Len(t.in_hand) > 0

RECURSIVE SumLen(_, _)
SumLen(stacks, n) == IF n = 0 THEN 0 ELSE Len(stacks[n]) + SumLen(stacks, n - 1)

\* mutant: the last Foundation is not counted
cards_in_foundation_SkipLast(t) == SumLen(t.foundations, Len(t.foundations) - 1)

cards_in_foundation(t) == SumLen(t.foundations, Len(t.foundations))

\* mutant: the table wins with one card still off the Foundations
winner_AllButOne(t) == cards_in_foundation(t) >= DeckSize - 1

winner(t) == cards_in_foundation(t) = DeckSize

\* mutant: the Stock is not looked through
find_card_NotInStock(t, rank, suit) ==
    LET hits == {id \in StackIds \ {Stock} :
                    stack_find_card(get_stack(t, id), rank, suit) # None}
    IN  IF hits = {} THEN Nothing
        ELSE LET id == CHOOSE i \in hits : \A j \in hits : i <= j
             IN  [stack |-> id, index |-> stack_find_card(get_stack(t, id), rank, suit)]

\* Table::find_card: the first pile in StackId order holding the card
find_card(t, rank, suit) ==
    LET hits == {id \in StackIds : stack_find_card(get_stack(t, id), rank, suit) # None}
    IN  IF hits = {} THEN Nothing
        ELSE LET id == CHOOSE i \in hits : \A j \in hits : i <= j
             IN  [stack |-> id, index |-> stack_find_card(get_stack(t, id), rank, suit)]

\* mutant: a recycle leaves the cards face-up
deal_from_stock_RecycleFaceUp(t) ==
    LET amount_to_deal == Min(DealAmount, Len(t.stock))
        n == Len(t.stock)
    IN  IF amount_to_deal = 0
        THEN [t EXCEPT !.stock = Reverse(t.waste),
                       !.waste = t.stock]
        ELSE [t EXCEPT !.stock = Prefix(t.stock, n - amount_to_deal),
                       !.waste = t.waste \o
                                 [i \in 1..amount_to_deal |->
                                    [t.stock[n + 1 - i] EXCEPT !.face_up = TRUE]]]

\* mutant: the dealt cards reach the Waste as a block, in Stock order
deal_from_stock_Block(t) ==
    LET amount_to_deal == Min(DealAmount, Len(t.stock))
        n == Len(t.stock)
    IN  IF amount_to_deal = 0
        THEN [t EXCEPT !.stock = Reverse([i \in 1..Len(t.waste) |->
                                            [t.waste[i] EXCEPT !.face_up = FALSE]]),
                       !.waste = t.stock]
        ELSE [t EXCEPT !.stock = Prefix(t.stock, n - amount_to_deal),
                       !.waste = t.waste \o
                                 [i \in 1..amount_to_deal |->
                                    [t.stock[n - amount_to_deal + i] EXCEPT !.face_up = TRUE]]]

\* mutant: the dealt cards keep the face they had in the Stock
deal_from_stock_FaceKept(t) ==
    LET amount_to_deal == Min(DealAmount, Len(t.stock))
        n == Len(t.stock)
    IN  IF amount_to_deal = 0
        THEN [t EXCEPT !.stock = Reverse([i \in 1..Len(t.waste) |->
                                            [t.waste[i] EXCEPT !.face_up = FALSE]]),
                       !.waste = t.stock]
        ELSE [t EXCEPT !.stock = Prefix(t.stock, n - amount_to_deal),
                       !.waste = t.waste \o
                                 [i \in 1..amount_to_deal |-> t.stock[n + 1 - i]]]

\* mutant: a recycle puts the Waste back without reversing it
deal_from_stock_NoReverse(t) ==
    LET amount_to_deal == Min(DealAmount, Len(t.stock))
        n == Len(t.stock)
    IN  IF amount_to_deal = 0
        THEN [t EXCEPT !.stock = [i \in 1..Len(t.waste) |->
                                    [t.waste[i] EXCEPT !.face_up = FALSE]],
                       !.waste = t.stock]
        ELSE [t EXCEPT !.stock = Prefix(t.stock, n - amount_to_deal),
                       !.waste = t.waste \o
                                 [i \in 1..amount_to_deal |->
                                    [t.stock[n + 1 - i] EXCEPT !.face_up = TRUE]]]

\* Table::deal_from_stock: deal up to three cards, or recycle an empty Stock
deal_from_stock(t) ==
    LET amount_to_deal == Min(DealAmount, Len(t.stock))
        n == Len(t.stock)
    IN  IF amount_to_deal = 0
        THEN [t EXCEPT !.stock = Reverse([i \in 1..Len(t.waste) |->
                                            [t.waste[i] EXCEPT !.face_up = FALSE]]),
                       !.waste = t.stock]
        ELSE [t EXCEPT !.stock = Prefix(t.stock, n - amount_to_deal),
                       !.waste = t.waste \o
                                 [i \in 1..amount_to_deal |->
                                    [t.stock[n + 1 - i] EXCEPT !.face_up = TRUE]]]

recycle_waste(t) == deal_from_stock(t)

\* mutant: the source pile is left as the move leaves it
expose_top_card_of_stack_Skip(t, id) ==
    t

expose_top_card_of_stack(t, id) == set_stack(t, id, expose_top_card(get_stack(t, id)))

\* mutant: the cards go to Hand and stay on the pile as well
take_selected_cards_from_stack_NoSplit(t, id, index) ==
    LET cards_for_hand == Suffix(get_stack(t, id), index)
    IN  IF Len(cards_for_hand) > 0
        THEN [t EXCEPT !.in_hand = cards_for_hand]
        ELSE t

\* Table::take_selected_cards_from_stack: the suffix from index goes to Hand
take_selected_cards_from_stack(t, id, index) ==
    LET cards_for_hand == Suffix(get_stack(t, id), index)
        split == set_stack(t, id, Prefix(get_stack(t, id), index))
    IN  IF Len(cards_for_hand) > 0
        THEN [split EXCEPT !.in_hand = cards_for_hand]
        ELSE split

\* mutant: the source pile's new top card is not exposed
put_hand_on_stack_NoExpose(t, source, id) ==
    LET emptied == [t EXCEPT !.in_hand = <<>>]
    IN  set_stack(emptied, id, get_stack(emptied, id) \o t.in_hand)

\* Table::put_hand_on_stack: Hand lands on the target, the source is exposed
put_hand_on_stack(t, source, id) ==
    LET emptied == [t EXCEPT !.in_hand = <<>>]
        landed == set_stack(emptied, id, get_stack(emptied, id) \o t.in_hand)
    IN  expose_top_card_of_stack(landed, source.stack)

\* ---------------------------------------------------------------- plays
Setup == [kind |-> "Setup"]

DrawFromStock == [kind |-> "DrawFromStock"]

RecycleWaste == [kind |-> "RecycleWaste"]

MoveCards(source, target) == [kind |-> "MoveCards", source |-> source, target |-> target]

Source(stack, index) == [stack |-> stack, index |-> index]

\* the result of a call that aborts (a failed assert!, panic! or expect)
Panic == [panic |-> TRUE]

\* make_move: the play applied to a clone of the table
make_move(p, t) ==
    IF p.kind = "DrawFromStock"
    THEN IF has_cards_in_stock(t) THEN deal_from_stock(t) ELSE Panic
    ELSE IF p.kind = "RecycleWaste"
    THEN IF ~has_cards_in_stock(t) THEN recycle_waste(t) ELSE Panic
    ELSE IF p.kind = "MoveCards"
    THEN IF p.source.index > Len(get_stack(t, p.source.stack))
         THEN Panic
         ELSE put_hand_on_stack(
                  take_selected_cards_from_stack(t, p.source.stack, p.source.index),
                  p.source, p.target)
    ELSE Panic

\* ------------------------------------------------------------ generator
\* ActiveCardIterator::new: the first pile, in StackId order, that has an
\* active card which is the Waste's or the pile's lowest face-up card
ActiveCardIterator_new(t) ==
    LET active_index(id) == next_active_card(id, get_stack(t, id), None)
        hits == {id \in StackIds :
                    /\ active_index(id) # None
                    /\ \/ id = Waste
                       \/ is_top_face_up_card(get_stack(t, id), active_index(id))}
    IN  IF hits = {} THEN Nothing
        ELSE LET id == CHOOSE i \in hits : \A j \in hits : i <= j
             IN  Source(id, active_index(id))

\* the loop of ActiveCardIterator::next: the next active card at or after
\* (stack, start), ending when the pile order wraps to the Stock.  From the
\* Hand the program's loop does not end (Hand follows Hand); the Hand is
\* empty whenever plays are generated.
RECURSIVE ActiveCardIterator_advance(_, _, _)
ActiveCardIterator_advance(t, stack, start) ==
    LET next_index == next_active_card(stack, get_stack(t, stack), start)
    IN  IF next_index # None THEN Source(stack, next_index)
        ELSE IF next(stack) = Stock \/ next(stack) = stack THEN Nothing
        ELSE ActiveCardIterator_advance(t, next(stack), None)

\* the sources ActiveCardIterator yields, in order
RECURSIVE ActiveCardsFrom(_, _)
ActiveCardsFrom(t, source) ==
    IF source = Nothing THEN <<>>
    ELSE <<source>> \o
         ActiveCardsFrom(t, ActiveCardIterator_advance(t, source.stack, source.index))

ActiveCards(t) == ActiveCardsFrom(t, ActiveCardIterator_new(t))

\* CardPlayIterator::next_legal_play: the first target from start on, without
\* wrapping, that can take the card
RECURSIVE next_legal_play(_, _, _, _)
next_legal_play(t, card, source, start) ==
    IF start = None THEN Nothing
    ELSE IF can_play_card(start, get_stack(t, start), card,
                          Len(get_stack(t, source.stack)) - source.index)
    THEN MoveCards(source, start)
    ELSE next_legal_play(t, card, source, next_no_wrap(start))

\* the plays CardPlayIterator yields for one source, in order
RECURSIVE CardPlaysFrom(_, _, _, _)
CardPlaysFrom(t, card, source, p) ==
    IF p = Nothing THEN <<>>
    ELSE <<p>> \o
         CardPlaysFrom(t, card, source,
                       IF next_no_wrap(p.target) # None
                       THEN next_legal_play(t, card, source, next_no_wrap(p.target))
                       ELSE Nothing)

CardPlays(t, source) ==
    LET card == get_stack(t, source.stack)[source.index + 1]
    IN  CardPlaysFrom(t, card, source, next_legal_play(t, card, source, Waste))

RECURSIVE ActiveCardPlays(_, _, _)
ActiveCardPlays(t, sources, n) ==
    IF n > Len(sources) THEN <<>>
    ELSE CardPlays(t, sources[n]) \o ActiveCardPlays(t, sources, n + 1)

\* mutant: the Waste is looked at before the Stock
PlayIterator_WasteFirst(t) ==
    (IF has_cards_in_waste(t) THEN <<RecycleWaste>>
     ELSE IF has_cards_in_stock(t) THEN <<DrawFromStock>>
     ELSE <<>>)
    \o ActiveCardPlays(t, ActiveCards(t), 1)

\* mutant: a draw is offered whether the Stock holds cards or not
PlayIterator_DrawAlways(t) ==
    <<DrawFromStock>> \o ActiveCardPlays(t, ActiveCards(t), 1)

\* PlayIterator: the draw or recycle, then every play of every active card
PlayIterator(t) ==
    (IF has_cards_in_stock(t) THEN <<DrawFromStock>>
     ELSE IF has_cards_in_waste(t) THEN <<RecycleWaste>>
     ELSE <<>>)
    \o ActiveCardPlays(t, ActiveCards(t), 1)

\* ------------------------------------------------------------- the game
\* Any table reachable from Table::new(seed) by plays the generator yields
\* for the current table, each applied with make_move.
Seeds == 0..MaxSeed

NoSearch ==
    /\ pc = "play"
    /\ search_nodes = <<>>
    /\ tables = {}
    /\ iterations = 0
    /\ outcome = {}
    /\ reported = <<>>

Init ==
    /\ \E seed \in Seeds : table = new_table(seed)
    /\ NoSearch

Apply(p) ==
    /\ table' = make_move(p, table)
    /\ pc = "play"
    /\ UNCHANGED <<pc, search_nodes, tables, iterations, outcome, reported>>

\* the set of plays the generator yields for a table
Generated(t) == LET plays == PlayIterator(t) IN {plays[i] : i \in 1..Len(plays)}

PlayDrawFromStock ==
    /\ DrawFromStock \in Generated(table)
    /\ Apply(DrawFromStock)

PlayRecycleWaste ==
    /\ RecycleWaste \in Generated(table)
    /\ Apply(RecycleWaste)

PlayMoveCards ==
    \E p \in Generated(table) :
        /\ p.kind = "MoveCards"
        /\ Apply(p)

Next ==
    \/ PlayDrawFromStock
    \/ PlayRecycleWaste
    \/ PlayMoveCards

Spec == Init /\ [][Next]_vars

\* ------------------------------------------------------------ heuristic
\* WeightedPlay::tableau_move
tableau_move(source, target, t) ==
    LET stack == get_stack(t, source.stack)
    IN  IF is_top_face_up_card(stack, source.index)
        THEN IF Len(stack) > 0 THEN <<0, source.index + 1>> ELSE <<0, 1>>
        ELSE <<0, 1>>

\* mutant: the Queen's face decides wherever she lies
waste_king_priority_FaceOnly(card, t) ==
    LET queen_card_location == find_card(t, Queen, card.suit)
    IN  IF queen_card_location # Nothing
        THEN IF get_stack(t, queen_card_location.stack)
                   [queen_card_location.index + 1].face_up
             THEN 1
             ELSE -1
        ELSE 99

\* WeightedPlay::waste_king_priority
waste_king_priority(card, t) ==
    LET queen_card_location == find_card(t, Queen, card.suit)
    IN  IF queen_card_location # Nothing
        THEN IF is_tableau(queen_card_location.stack)
             THEN IF get_stack(t, queen_card_location.stack)
                        [queen_card_location.index + 1].face_up
                  THEN 1
                  ELSE -1
             ELSE 1
        ELSE 99

\* mutant: a move from the Waste is not told from a move from a Tableau
Weight_WasteAsTableau(p, t) ==
    IF p.kind = "MoveCards"
    THEN IF is_foundation(p.target) THEN <<5, 0>>
         ELSE IF is_tableau(p.target)
         THEN IF p.source.stack = Waste \/ is_tableau(p.source.stack)
              THEN tableau_move(p.source, p.target, t)
              ELSE IF is_foundation(p.source.stack) THEN <<-10, 0>>
              ELSE <<0, 0>>
         ELSE <<0, 0>>
    ELSE <<0, 0>>

\* the (score, priority) WeightedPlay::new computes
Weight(p, t) ==
    IF p.kind = "MoveCards"
    THEN IF is_foundation(p.target) THEN <<5, 0>>
         ELSE IF is_tableau(p.target)
         THEN IF p.source.stack = Waste
              THEN LET card == get_stack(t, p.source.stack)[p.source.index + 1]
                   IN  <<5, IF card.rank = King THEN waste_king_priority(card, t) ELSE 1>>
              ELSE IF is_tableau(p.source.stack) THEN tableau_move(p.source, p.target, t)
              ELSE IF is_foundation(p.source.stack) THEN <<-10, 0>>
              ELSE <<0, 0>>
         ELSE <<0, 0>>
    ELSE <<0, 0>>

WeightedPlay_new(p, t) ==
    [play |-> p, score |-> Weight(p, t)[1], priority |-> Weight(p, t)[2]]

\* mutant: the priority is not compared
LessOrEqual_ScoreOnly(a, b) ==
    a.score <= b.score

\* Ord for WeightedPlay: by score, then by priority
LessOrEqual(a, b) ==
    a.score < b.score \/ (a.score = b.score /\ a.priority <= b.priority)

\* Vec::sort, a stable ascending sort: each play goes behind the plays that
\* compare less or equal
Insert(sorted, w) ==
    LET behind == {i \in 1..Len(sorted) : LessOrEqual(sorted[i], w)}
        at == IF behind = {} THEN 0 ELSE CHOOSE i \in behind : \A j \in behind : j <= i
    IN  SubSeq(sorted, 1, at) \o <<w>> \o SubSeq(sorted, at + 1, Len(sorted))

RECURSIVE Sort(_, _)
Sort(ws, n) == IF n = 0 THEN <<>> ELSE Insert(Sort(ws, n - 1), ws[n])

\* --------------------------------------------------------------- search
\* SearchNode::new: the frame of a table with its sorted candidate plays
SearchNode_new(parent, index, p, t) ==
    LET plays == PlayIterator(t)
    IN  [parent |-> parent,
         index |-> index,
         play |-> p,
         table |-> t,
         weighted_plays |-> Sort([i \in 1..Len(plays) |-> WeightedPlay_new(plays[i], t)],
                                 Len(plays))]

\* mutant: the backward scan steps over a recycle as over a draw
RECURSIVE RecycleScan_OverRecycle(_, _)
RecycleScan_OverRecycle(previous_plays, search_index) ==
    IF search_index < 0 THEN FALSE
    ELSE IF previous_plays[search_index + 1].kind \in {"DrawFromStock", "RecycleWaste"}
    THEN RecycleScan_OverRecycle(previous_plays, search_index - 1)
    ELSE TRUE

\* the backward scan of filter_play for a RecycleWaste: TRUE when a play
\* other than a draw or a recycle is met before any recycle
RECURSIVE RecycleScan(_, _)
RecycleScan(previous_plays, search_index) ==
    IF search_index < 0 THEN FALSE
    ELSE IF previous_plays[search_index + 1].kind = "DrawFromStock"
    THEN RecycleScan(previous_plays, search_index - 1)
    ELSE IF previous_plays[search_index + 1].kind = "RecycleWaste" THEN FALSE
    ELSE TRUE

\* mutant: every play passes
filter_play_Open(node, p, previous_plays) ==
    p

\* mutant: a King at the bottom of a Tableau may be lifted
filter_play_KingPasses(node, p, previous_plays) ==
    IF p.kind = "RecycleWaste"
    THEN IF Len(previous_plays) > 0 /\ ~RecycleScan(previous_plays, Len(previous_plays) - 1)
         THEN Nothing
         ELSE p
    ELSE IF p.kind = "MoveCards"
    THEN IF is_foundation(p.target) THEN p
         ELSE IF is_foundation(p.source.stack) THEN Nothing
         ELSE IF p.source.stack = Waste THEN p
         ELSE LET stack == get_stack(node.table, p.source.stack)
              IN  IF p.source.index = 0
                  THEN IF stack[1].rank = King THEN p ELSE p
                  ELSE IF is_top_face_up_card(stack, p.source.index) THEN p
                  ELSE Nothing
    ELSE p

\* mutant: a card above the lift point may be lifted
filter_play_SubRunPasses(node, p, previous_plays) ==
    IF p.kind = "RecycleWaste"
    THEN IF Len(previous_plays) > 0 /\ ~RecycleScan(previous_plays, Len(previous_plays) - 1)
         THEN Nothing
         ELSE p
    ELSE IF p.kind = "MoveCards"
    THEN IF is_foundation(p.target) THEN p
         ELSE IF is_foundation(p.source.stack) THEN Nothing
         ELSE IF p.source.stack = Waste THEN p
         ELSE LET stack == get_stack(node.table, p.source.stack)
              IN  IF p.source.index = 0
                  THEN IF stack[1].rank = King THEN Nothing ELSE p
                  ELSE IF is_top_face_up_card(stack, p.source.index) THEN p
                  ELSE p
    ELSE p

\* mutant: a Foundation card may be moved back
filter_play_FoundationSourcePasses(node, p, previous_plays) ==
    IF p.kind = "RecycleWaste"
    THEN IF Len(previous_plays) > 0 /\ ~RecycleScan(previous_plays, Len(previous_plays) - 1)
         THEN Nothing
         ELSE p
    ELSE IF p.kind = "MoveCards"
    THEN IF is_foundation(p.target) THEN p
         ELSE IF is_foundation(p.source.stack) THEN p
         ELSE IF p.source.stack = Waste THEN p
         ELSE LET stack == get_stack(node.table, p.source.stack)
              IN  IF p.source.index = 0
                  THEN IF stack[1].rank = King THEN Nothing ELSE p
                  ELSE IF is_top_face_up_card(stack, p.source.index) THEN p
                  ELSE Nothing
    ELSE p

\* mutant: a RecycleWaste always passes
filter_play_RecycleAlways(node, p, previous_plays) ==
    IF p.kind = "MoveCards"
    THEN IF is_foundation(p.target) THEN p
         ELSE IF is_foundation(p.source.stack) THEN Nothing
         ELSE IF p.source.stack = Waste THEN p
         ELSE LET stack == get_stack(node.table, p.source.stack)
              IN  IF p.source.index = 0
                  THEN IF stack[1].rank = King THEN Nothing ELSE p
                  ELSE IF is_top_face_up_card(stack, p.source.index) THEN p
                  ELSE Nothing
    ELSE p

\* SearchNode::filter_play: the play, or Nothing when it is rejected
filter_play(node, p, previous_plays) ==
    IF p.kind = "RecycleWaste"
    THEN IF Len(previous_plays) > 0 /\ ~RecycleScan(previous_plays, Len(previous_plays) - 1)
         THEN Nothing
         ELSE p
    ELSE IF p.kind = "MoveCards"
    THEN IF is_foundation(p.target) THEN p
         ELSE IF is_foundation(p.source.stack) THEN Nothing
         ELSE IF p.source.stack = Waste THEN p
         ELSE LET stack == get_stack(node.table, p.source.stack)
              IN  IF p.source.index = 0
                  THEN IF stack[1].rank = King THEN Nothing ELSE p
                  ELSE IF is_top_face_up_card(stack, p.source.index) THEN p
                  ELSE Nothing
    ELSE p

\* SearchNode::search: candidates are popped from the end until the filter
\* lets one through; the child frame (or Nothing) and what is left
RECURSIVE search(_, _, _, _)
search(node, weighted_plays, next_index, previous_plays) ==
    IF weighted_plays = <<>>
    THEN [node |-> Nothing, weighted_plays |-> <<>>]
    ELSE LET weighted_play == weighted_plays[Len(weighted_plays)]
             rest == SubSeq(weighted_plays, 1, Len(weighted_plays) - 1)
         IN  IF filter_play(node, weighted_play.play, previous_plays) # Nothing
             THEN [node |-> SearchNode_new(node.index, next_index, weighted_play.play,
                                           make_move(weighted_play.play, node.table)),
                   weighted_plays |-> rest]
             ELSE search(node, rest, next_index, previous_plays)

\* test_plays_iter: the parents of a frame, nearest first
RECURSIVE Parents(_, _)
Parents(nodes, traverse) ==
    IF nodes[traverse + 1].parent = None THEN <<>>
    ELSE <<nodes[traverse + 1].parent>> \o Parents(nodes, nodes[traverse + 1].parent)

\* test_plays_iter: the plays handed to the filter and printed: the play of
\* every parent of the last frame, root first
PreviousPlays(nodes) ==
    LET parents == Reverse(Parents(nodes, Len(nodes) - 1))
    IN  [i \in 1..Len(parents) |-> nodes[parents[i] + 1].play]

\* mutant: the child is numbered one past the length of the stack
LastSearch_IndexPastEnd(nodes) ==
    search(nodes[Len(nodes)], nodes[Len(nodes)].weighted_plays, Len(nodes) + 1,
           PreviousPlays(nodes))

\* the search of the last frame
LastSearch(nodes) ==
    search(nodes[Len(nodes)], nodes[Len(nodes)].weighted_plays, Len(nodes),
           PreviousPlays(nodes))

\* mutant: the play is applied to the frame's own table, not to a clone
Searched_NoClone(nodes) ==
    [nodes EXCEPT ![Len(nodes)].weighted_plays = LastSearch(nodes).weighted_plays,
                  ![Len(nodes)].table = IF LastSearch(nodes).node # Nothing
                                        THEN LastSearch(nodes).node.table
                                        ELSE @]

\* the last frame after its search
Searched(nodes) ==
    [nodes EXCEPT ![Len(nodes)].weighted_plays = LastSearch(nodes).weighted_plays]

SearchSeeds == 0..MaxSearchSeed

SearchInit ==
    /\ \E seed \in SearchSeeds : table = new_table(seed)
    /\ pc = "loop"
    /\ search_nodes = <<SearchNode_new(None, 0, Setup, table)>>
    /\ tables = {}
    /\ iterations = 0
    /\ outcome = {}
    /\ reported = <<>>

\* the end of a loop iteration that did not break: count, and stop at the cap
Count ==
    /\ iterations' = iterations + 1
    /\ IF iterations + 1 > IterationCap
       THEN outcome' = outcome \cup {"IterationLimit"} /\ pc' = "exit"
       ELSE outcome' = outcome /\ pc' = "loop"

\* an iteration whose search yields a winning child: report and break
SearchWin ==
    /\ pc = "loop"
    /\ search_nodes # <<>>
    /\ LastSearch(search_nodes).node # Nothing
    /\ winner(LastSearch(search_nodes).node.table)
    /\ search_nodes' = Searched(search_nodes)
    /\ reported' = PreviousPlays(search_nodes) \o <<LastSearch(search_nodes).node.play>>
    /\ outcome' = outcome \cup {"Winner"}
    /\ pc' = "exit"
    /\ UNCHANGED <<table, tables, iterations>>

\* an iteration whose search yields a child that does not win: push it
SearchExpand ==
    /\ pc = "loop"
    /\ search_nodes # <<>>
    /\ LastSearch(search_nodes).node # Nothing
    /\ ~winner(LastSearch(search_nodes).node.table)
    /\ search_nodes' = Append(Searched(search_nodes), LastSearch(search_nodes).node)
    /\ tables' = tables \cup {LastSearch(search_nodes).node.table}
    /\ Count
    /\ UNCHANGED <<table, reported>>

\* mutant: backtracking drops every frame, not only the last
SearchBacktrack_PopAll ==
    /\ pc = "loop"
    /\ search_nodes # <<>>
    /\ LastSearch(search_nodes).node = Nothing
    /\ search_nodes' = <<>>
    /\ Count
    /\ UNCHANGED <<table, tables, reported>>

\* an iteration whose search yields nothing: pop the frame
SearchBacktrack ==
    /\ pc = "loop"
    /\ search_nodes # <<>>
    /\ LastSearch(search_nodes).node = Nothing
    /\ search_nodes' = SubSeq(search_nodes, 1, Len(search_nodes) - 1)
    /\ Count
    /\ UNCHANGED <<table, tables, reported>>

\* after the loop: an empty frame stack is reported as exhaustion
SearchExit ==
    /\ \/ pc = "exit"
       \/ pc = "loop" /\ search_nodes = <<>>
    /\ outcome' = IF search_nodes = <<>> THEN outcome \cup {"Exhausted"} ELSE outcome
    /\ pc' = "done"
    /\ UNCHANGED <<table, search_nodes, tables, iterations, reported>>

SearchNext ==
    \/ SearchWin
    \/ SearchExpand
    \/ SearchBacktrack
    \/ SearchExit

SearchSpec == SearchInit /\ [][SearchNext]_vars

\* The loop is a single thread that runs on until it breaks: a step that can
\* be taken is taken.  This is weak fairness of SearchNext, WF_vars(SearchNext),
\* with its enabling condition written out: a step of the search is possible
\* exactly until the program has passed the report after the loop.
SearchFairSpec ==
    SearchSpec /\ ([]<>(pc = "done") \/ []<><<SearchNext>>_vars)

\* ------------------------------------------------------ table invariants
\* every card of the table, pile after pile
RECURSIVE Concat(_, _)
Concat(stacks, n) == IF n = 0 THEN <<>> ELSE Concat(stacks, n - 1) \o stacks[n]

AllCards(t) ==
    t.stock \o t.waste \o Concat(t.foundations, Len(t.foundations))
            \o Concat(t.tableaux, Len(t.tableaux)) \o t.in_hand

Faces(cards) == {<<cards[i].suit, cards[i].rank>> : i \in 1..Len(cards)}

\* C1: card conservation.  In every table reachable by generated plays the
\* cards of Stock, Waste, the Foundations, the Tableaux and Hand together are
\* the DeckSize distinct (suit, rank) pairs, each exactly once.
C1_CardConservation ==
    /\ Len(AllCards(table)) = DeckSize
    /\ Faces(AllCards(table)) = Suits \X Ranks

\* C1 witness: draws and moves have acted (cards lie in the Waste, on a
\* Foundation and on a grown Tableau) and the deck is still whole.
C1_Witness ==
    /\ table.waste # <<>>
    /\ \E f \in 1..4 : table.foundations[f] # <<>>
    /\ \E k \in 1..NumTableaux : Len(table.tableaux[k]) > k
    /\ Len(AllCards(table)) = DeckSize

\* C3: lift-point invariant.  In every Tableau the face-up cards form a
\* contiguous suffix: no face-down card lies above a face-up card.
C3_LiftPointInvariant ==
    \A k \in 1..NumTableaux :
        \A i, j \in 1..Len(table.tableaux[k]) :
            (i < j /\ table.tableaux[k][i].face_up) => table.tableaux[k][j].face_up

\* C3 witness: a Tableau holding a face-down card under a run of two or more
\* face-up cards, and another whose last dealt card was exposed by a move.
C3_Witness ==
    /\ \E k \in 1..NumTableaux :
          LET cards == table.tableaux[k]
          IN  /\ Len(cards) >= 3
              /\ ~cards[1].face_up
              /\ cards[Len(cards) - 1].face_up
              /\ cards[Len(cards)].face_up
    /\ \E k \in 2..NumTableaux :
          LET cards == table.tableaux[k]
          IN  /\ Len(cards) = k - 1
              /\ cards[Len(cards)].face_up

\* ---------------------------------------------- the rules, as specified
\* the suit pinned to each Foundation
PinnedSuit(id) ==
    IF id = Foundation1 THEN "Spade"
    ELSE IF id = Foundation2 THEN "Club"
    ELSE IF id = Foundation3 THEN "Heart"
    ELSE "Diamond"

\* the acceptance predicate of a target pile for a run of count cards whose
\* bottom card is card
Accepts(t, target, card, count) ==
    LET pile == get_stack(t, target)
    IN  IF target \in FOUNDATIONS
        THEN /\ count = 1
             /\ \/ pile = <<>> /\ card.rank = Ace /\ card.suit = PinnedSuit(target)
                \/ /\ pile # <<>>
                   /\ card.suit = pile[Len(pile)].suit
                   /\ card.rank = pile[Len(pile)].rank + 1
        ELSE IF target \in TABLEAUX
        THEN \/ pile = <<>> /\ card.rank = King
             \/ /\ pile # <<>>
                /\ color(card.suit) # color(pile[Len(pile)].suit)
                /\ card.rank = pile[Len(pile)].rank - 1
        ELSE FALSE

\* the lift point of a pile: the index of its lowest face-up card
HasFaceUp(cards) == \E i \in 1..Len(cards) : cards[i].face_up

LiftPoint(cards) ==
    CHOOSE i \in 0..(Len(cards) - 1) :
        /\ cards[i + 1].face_up
        /\ \A j \in 0..(i - 1) : ~cards[j + 1].face_up

CardAt(t, source) == get_stack(t, source.stack)[source.index + 1]

RunLength(t, source) == Len(get_stack(t, source.stack)) - source.index

\* the active sources: the top card of a non-empty Waste or Foundation and
\* the lift point of a Tableau
ActiveSources(t) ==
    {Source(id, Len(get_stack(t, id)) - 1) :
        id \in {i \in {Waste} \cup FOUNDATIONS : get_stack(t, i) # <<>>}}
    \cup
    {Source(id, LiftPoint(get_stack(t, id))) :
        id \in {i \in TABLEAUX : HasFaceUp(get_stack(t, i))}}

FoundationsDoNotShrink ==
    \A f \in 1..4 : Len(table'.foundations[f]) >= Len(table.foundations[f])

\* C4 (as claimed): along any sequence of generated plays applied with
\* make_move no Foundation ever loses a card.
C4_FoundationMonotonic == [][FoundationsDoNotShrink]_vars

\* C4 (amended): a step that applies a generated play other than a MoveCards
\* with a Foundation source never decreases the number of cards of any
\* Foundation.
C4_FoundationMonotonicUnlessFoundationSource ==
    [][(\E p \in Generated(table) :
            /\ table' = make_move(p, table)
            /\ ~(p.kind = "MoveCards" /\ p.source.stack \in FOUNDATIONS))
       => FoundationsDoNotShrink]_vars

\* C4 witness: cards have been promoted (a Foundation holds two cards) and a
\* play with a Foundation source is on offer next to plays without one.
C4_Witness ==
    /\ \E f \in 1..4 : Len(table.foundations[f]) >= 2
    /\ \E p \in Generated(table) : p.kind = "MoveCards" /\ p.source.stack \in FOUNDATIONS
    /\ \E p \in Generated(table) : p.kind = "MoveCards" /\ p.source.stack \notin FOUNDATIONS

\* deal_from_stock repeated until the Stock is empty
RECURSIVE DealAll(_)
DealAll(t) == IF has_cards_in_stock(t) THEN DealAll(deal_from_stock(t)) ELSE t

StockAllFaceDown(t) == \A i \in 1..Len(t.stock) : ~t.stock[i].face_up

\* C5: recycle round trip.  From a table with an empty Waste and a face-down
\* Stock, dealing until the Stock is empty and recycling once gives back the
\* same Stock (same cards, same order, face-down) and an empty Waste.
C5_RecycleRoundTrip ==
    (table.waste = <<>> /\ StockAllFaceDown(table)) =>
        LET recycled == recycle_waste(DealAll(table))
        IN  recycled.stock = table.stock /\ recycled.waste = <<>>

\* C5 witness: an empty Waste over a Stock whose size is no multiple of the
\* deal amount and takes two deals, which the round trip restores.
C5_Witness ==
    /\ table.waste = <<>>
    /\ StockAllFaceDown(table)
    /\ Len(table.stock) > DealAmount
    /\ Len(table.stock) % DealAmount # 0
    /\ Len(DealAll(table).waste) = Len(table.stock)
    /\ recycle_waste(DealAll(table)).stock = table.stock

\* every (pile, index) of the table that holds the card (rank, suit)
Locations(t, rank, suit) ==
    UNION {{Source(id, i - 1) : i \in {j \in 1..Len(get_stack(t, id)) :
                                          /\ get_stack(t, id)[j].rank = rank
                                          /\ get_stack(t, id)[j].suit = suit}} :
           id \in StackIds}

\* C6: find_card returns, for every rank and suit, the one location of the
\* table that holds that card, face-up or not; it never returns nothing.
C6_FindCard ==
    \A rank \in Ranks, suit \in Suits :
        LET found == find_card(table, rank, suit)
        IN  /\ found # Nothing
            /\ Locations(table, rank, suit) = {found}

\* C6 witness: cards are found in the Stock, in the Waste, on a Foundation
\* and face-down in a Tableau of one and the same table.
C6_Witness ==
    /\ table.stock # <<>>
    /\ table.waste # <<>>
    /\ \A kind \in {"Stock", "Waste", "Foundation", "Tableau"} :
          \E rank \in Ranks, suit \in Suits :
              LET found == find_card(table, rank, suit)
              IN  found # Nothing /\ stack_type(found.stack) = kind
    /\ \E rank \in Ranks, suit \in Suits :
          LET found == find_card(table, rank, suit)
          IN  /\ found # Nothing
              /\ is_tableau(found.stack)
              /\ ~CardAt(table, found).face_up

\* C7: generator soundness.  Every play yielded for a reachable table is
\* legal there: a draw needs a non-empty Stock, a recycle an empty Stock and
\* a non-empty Waste, a move a face-up source card of the Waste, a
\* Foundation or a Tableau and a Foundation or Tableau target that accepts it.
C7_GeneratorSound ==
    \A p \in Generated(table) :
        /\ p.kind \in {"DrawFromStock", "RecycleWaste", "MoveCards"}
        /\ p.kind = "DrawFromStock" => table.stock # <<>>
        /\ p.kind = "RecycleWaste" => table.stock = <<>> /\ table.waste # <<>>
        /\ p.kind = "MoveCards" =>
              /\ p.source.stack \in {Waste} \cup FOUNDATIONS \cup TABLEAUX
              /\ p.source.index \in 0..(Len(get_stack(table, p.source.stack)) - 1)
              /\ CardAt(table, p.source).face_up
              /\ p.target \in FOUNDATIONS \cup TABLEAUX
              /\ Accepts(table, p.target, CardAt(table, p.source),
                         RunLength(table, p.source))

\* C7 witness: the generator offers a move onto a Foundation, a move of a
\* run of two or more cards onto a Tableau and a draw for the same table.
C7_Witness ==
    /\ DrawFromStock \in Generated(table)
    /\ \E p \in Generated(table) : p.kind = "MoveCards" /\ p.target \in FOUNDATIONS
    /\ \E p \in Generated(table) :
          /\ p.kind = "MoveCards"
          /\ p.target \in TABLEAUX
          /\ RunLength(table, p.source) >= 2

\* C8 (as claimed): generator completeness.  For every active source and
\* every Foundation or Tableau that accepts the run starting there the
\* generator yields the move.
C8_GeneratorComplete ==
    LET generated == Generated(table)
    IN  \A s \in ActiveSources(table), target \in FOUNDATIONS \cup TABLEAUX :
            Accepts(table, target, CardAt(table, s), RunLength(table, s))
                => MoveCards(s, target) \in generated

\* C9 (as claimed): every generated move with a Tableau source lifts from
\* that Tableau's lift point.
C9_OnlyLiftPoints ==
    \A p \in Generated(table) :
        (p.kind = "MoveCards" /\ p.source.stack \in TABLEAUX)
            => p.source.index = LiftPoint(get_stack(table, p.source.stack))

\* C9 (amended): every generated move with a Tableau source lifts from a
\* face-up card at or above that Tableau's lift point, and every face-up
\* card of a Tableau, the lift point or a card above it, is offered as the
\* source of a move to every Foundation or Tableau that accepts it.
C9_FaceUpCardsAtOrAboveLiftPoint ==
    LET generated == Generated(table)
    IN  /\ \A p \in generated :
              (p.kind = "MoveCards" /\ p.source.stack \in TABLEAUX) =>
                  /\ p.source.index < Len(get_stack(table, p.source.stack))
                  /\ CardAt(table, p.source).face_up
                  /\ p.source.index >= LiftPoint(get_stack(table, p.source.stack))
        /\ \A id \in TABLEAUX, target \in FOUNDATIONS \cup TABLEAUX :
              \A i \in 0..(Len(get_stack(table, id)) - 1) :
                  (/\ get_stack(table, id)[i + 1].face_up
                   /\ Accepts(table, target, get_stack(table, id)[i + 1],
                              Len(get_stack(table, id)) - i))
                      => MoveCards(Source(id, i), target) \in generated

\* C9 witness: the generator offers a move whose source is a Tableau card
\* above the lift point.
C9_Witness ==
    \E p \in Generated(table) :
        /\ p.kind = "MoveCards"
        /\ p.source.stack \in TABLEAUX
        /\ p.source.index > LiftPoint(get_stack(table, p.source.stack))

IsDrawOrRecycle(p) == p.kind \in {"DrawFromStock", "RecycleWaste"}

\* C10: the generator's output starts with DrawFromStock exactly when the
\* Stock is non-empty, otherwise with RecycleWaste exactly when the Waste is
\* non-empty; neither appears anywhere but first, so never both and never
\* twice, and neither appears when Stock and Waste are both empty.
C10_DrawRecycleOffering ==
    LET plays == PlayIterator(table)
    IN  /\ (table.stock # <<>>) <=> (Len(plays) >= 1 /\ plays[1] = DrawFromStock)
        /\ (table.stock = <<>>) =>
              ((table.waste # <<>>) <=> (Len(plays) >= 1 /\ plays[1] = RecycleWaste))
        /\ \A i \in 2..Len(plays) : ~IsDrawOrRecycle(plays[i])
        /\ (table.stock = <<>> /\ table.waste = <<>>) =>
              \A i \in 1..Len(plays) : ~IsDrawOrRecycle(plays[i])

\* C10 witness: the Stock is empty, the Waste is not, and the generator
\* offers RecycleWaste first, followed by moves.
C10_Witness ==
    /\ table.stock = <<>>
    /\ table.waste # <<>>
    /\ LET plays == PlayIterator(table)
       IN  Len(plays) >= 2 /\ plays[1] = RecycleWaste

\* ------------------------------------------------------ search properties
WithoutSetup(plays) == SelectSeq(plays, LAMBDA p : p.kind # "Setup")

\* the table after the plays from position i on, each one generated for the
\* table it is applied to; Panic when one is not
RECURSIVE Replay(_, _, _)
Replay(t, plays, i) ==
    IF i > Len(plays) THEN t
    ELSE IF plays[i] \notin Generated(t) THEN Panic
    ELSE Replay(make_move(plays[i], t), plays, i + 1)

\* C2 (as claimed): the plays reported with a win, without the Setup
\* sentinel, can be applied in order from the root table and end in a table
\* that wins.
C2_ReportedSolutionWins ==
    "Winner" \in outcome =>
        /\ Replay(table, WithoutSetup(reported), 1) # Panic
        /\ winner(Replay(table, WithoutSetup(reported), 1))

\* the table the search reported a win for: the last reported play applied
\* to the table of the last frame
ReportedTable ==
    make_move(reported[Len(reported)], search_nodes[Len(search_nodes)].table)

AllInFoundations(t) ==
    Len(Concat(t.foundations, Len(t.foundations))) = DeckSize

\* what the search has reported once it is over
Outcomes ==
    /\ outcome # {}
    /\ "Exhausted" \in outcome <=> search_nodes = <<>>
    /\ "IterationLimit" \in outcome <=> iterations > IterationCap
    /\ "Winner" \in outcome =>
          /\ outcome = {"Winner"}
          /\ search_nodes # <<>>
          /\ ReportedTable # Panic
          /\ AllInFoundations(ReportedTable)

\* C11 (as claimed): a search that is over has reported exactly one of a
\* win, exhaustion and the iteration cap.
C11_ExactlyOneOutcome == pc = "done" => Cardinality(outcome) = 1

\* C11 (amended): the search loop always terminates, having reported a win,
\* exhaustion or the iteration cap; a win is reported alone and only for a
\* table with every card on the Foundations; exhaustion is reported exactly
\* when the frame stack is empty and the cap exactly when the counter has
\* passed it, so both are reported when the pop that empties the stack is
\* the iteration that takes the counter past the cap.
C11_TerminatesWithOutcome ==
    /\ <>(pc = "done")
    /\ [](pc = "done" => Outcomes)

\* C11 witness: a search that is over and has reported both exhaustion and
\* the iteration cap.
C11_Witness ==
    /\ pc = "done"
    /\ outcome = {"Exhausted", "IterationLimit"}
    /\ iterations = IterationCap + 1

\* the plays the search applies at a frame: those generated for the frame's
\* table that the filter lets through, given the plays of the frames above
Admissible(t, previous_plays) ==
    {p \in Generated(t) : filter_play([table |-> t], p, previous_plays) # Nothing}

\* some sequence of admissible plays from the frame of table t, reached by
\* the play own under frames reached by previous_plays, produces a table
\* that wins
RECURSIVE WinBelow(_, _, _)
WinBelow(t, own, previous_plays) ==
    \E p \in Admissible(t, previous_plays) :
        \/ winner(make_move(p, t))
        \/ WinBelow(make_move(p, t), p, previous_plays \o <<own>>)

\* C12: exhaustive within the filter.  When the search ends with the frame
\* stack empty and the cap not reached, no sequence of plays from the root
\* table, each generated for the current table and accepted by the filter as
\* the search applies it, produces a table that wins.
C12_ExhaustiveWithinFilter ==
    (pc = "done" /\ outcome = {"Exhausted"}) => ~WinBelow(table, Setup, <<>>)

\* C12 witness: a search that ended by exhaustion below the cap, after it
\* had expanded frames and backtracked out of them.
C12_Witness ==
    /\ pc = "done"
    /\ outcome = {"Exhausted"}
    /\ iterations <= IterationCap
    /\ Cardinality(tables) >= 2

\* -------------------------------------------------------- applying plays
\* the plays of the kinds the generator knows that it does not yield for a
\* table: a draw from an empty Stock, a recycle over a non-empty Stock, the
\* Setup sentinel, and a move of the run at a card of the Waste, a
\* Foundation or a Tableau to a Foundation or Tableau that does not accept it
IllegalPlays(t) ==
    LET generated == Generated(t)
    IN  {p \in {Setup, DrawFromStock, RecycleWaste} : p \notin generated}
        \cup
        UNION {{MoveCards(Source(id, i), target) :
                    i \in {j \in 0..(Len(get_stack(t, id)) - 1) :
                              ~Accepts(t, target, get_stack(t, id)[j + 1],
                                       Len(get_stack(t, id)) - j)}} :
               id \in {Waste} \cup FOUNDATIONS \cup TABLEAUX,
               target \in FOUNDATIONS \cup TABLEAUX}

\* C13 (as claimed): make_move aborts on every play that the generator does
\* not yield for the table; it never returns a table for one.
C13_IllegalPlaysPanic ==
    \A p \in IllegalPlays(table) : make_move(p, table) = Panic

\* --------------------------------------------------------------- winning
OffFoundationsEmpty(t) ==
    /\ t.stock = <<>>
    /\ t.waste = <<>>
    /\ \A k \in 1..NumTableaux : t.tableaux[k] = <<>>
    /\ t.in_hand = <<>>

\* C14: in every reachable table winner() is true exactly when every card of
\* the deck lies on the Foundations, which is exactly when Stock, Waste,
\* every Tableau and Hand are empty.
C14_WinnerIffAllOnFoundations ==
    /\ winner(table) <=>
          Faces(Concat(table.foundations, Len(table.foundations))) = Suits \X Ranks
    /\ winner(table) <=> OffFoundationsEmpty(table)

\* C14 witness: a table reached by plays in which winner() is true and
\* nothing is left off the Foundations.
C14_Witness ==
    /\ winner(table)
    /\ OffFoundationsEmpty(table)
    /\ \A f \in 1..4 : Len(table.foundations[f]) = NumRanks

\* ------------------------------------------------------ draw and recycle
\* every pile but the Stock and the Waste is the same in both tables
SameButStockAndWaste(t, u) ==
    /\ u.foundations = t.foundations
    /\ u.tableaux = t.tableaux
    /\ u.in_hand = t.in_hand

FaceUp(card) == [card EXCEPT !.face_up = TRUE]

FaceDown(card) == [card EXCEPT !.face_up = FALSE]

\* C15: deal_from_stock on a non-empty Stock takes n = min(3, |Stock|) cards
\* off the top of the Stock and pushes them one at a time, face-up, onto the
\* Waste: the k-th card from the top of the Stock becomes the k-th card above
\* the old Waste, so the deepest of the n becomes the Waste's top; the rest
\* of the Stock, the old Waste beneath and every other pile are unchanged.
C15_DealFromStock ==
    table.stock # <<>> =>
        LET dealt == deal_from_stock(table)
            size == Len(table.stock)
            n == IF size < 3 THEN size ELSE 3
        IN  /\ Len(dealt.stock) = size - n
            /\ \A i \in 1..(size - n) : dealt.stock[i] = table.stock[i]
            /\ Len(dealt.waste) = Len(table.waste) + n
            /\ \A i \in 1..Len(table.waste) : dealt.waste[i] = table.waste[i]
            /\ \A k \in 1..n :
                  dealt.waste[Len(table.waste) + k] = FaceUp(table.stock[size + 1 - k])
            /\ top_card(dealt.waste) = FaceUp(table.stock[size + 1 - n])
            /\ SameButStockAndWaste(table, dealt)

\* C15 witness: a draw has been applied by make_move: a non-empty Waste lies
\* over a Stock that still holds too few cards for a full deal.
C15_Witness ==
    /\ table.waste # <<>>
    /\ Len(table.stock) \in 1..2
    /\ Len(deal_from_stock(table).waste) = Len(table.waste) + Len(table.stock)

\* C16: deal_from_stock and recycle_waste on an empty Stock leave the Waste
\* empty and the Stock holding the former Waste, face-down and reversed: the
\* former bottom of the Waste is the new top of the Stock.  With Stock and
\* Waste both empty nothing changes.  Every other pile is unchanged.
C16_Recycle ==
    table.stock = <<>> =>
        \A recycled \in {deal_from_stock(table), recycle_waste(table)} :
            LET size == Len(table.waste)
            IN  /\ recycled.waste = <<>>
                /\ Len(recycled.stock) = size
                /\ \A i \in 1..size :
                      recycled.stock[i] = FaceDown(table.waste[size + 1 - i])
                /\ size > 0 => top_card(recycled.stock) = FaceDown(bottom_card(table.waste))
                /\ size = 0 => recycled = table
                /\ SameButStockAndWaste(table, recycled)

\* C16 witness: an empty Stock beside a Waste of several face-up cards, whose
\* recycle turns them over.
C16_Witness ==
    /\ table.stock = <<>>
    /\ Len(table.waste) >= 2
    /\ \A i \in 1..Len(table.waste) : table.waste[i].face_up
    /\ recycle_waste(table).stock # <<>>

\* C16 witness of the no-op: Stock and Waste are both empty.
C16_WitnessBothEmpty ==
    /\ table.stock = <<>>
    /\ table.waste = <<>>
    /\ ~winner(table)

\* ------------------------------------------------------------ acceptance
\* every card, face-up or face-down
Cards == [suit : Suits, rank : Ranks, face_up : BOOLEAN]

\* the piles of a table, each a pile a predicate may be asked about
Piles(t) == {get_stack(t, id) : id \in StackIds}

\* C17: foundation_can_accept_card is true exactly when the Foundation is
\* empty and the card is the Ace of the suit pinned to it (Foundation1 Spade,
\* Foundation2 Club, Foundation3 Heart, Foundation4 Diamond), or the
\* Foundation is not empty and the card has its top card's suit and the top
\* card's rank plus one.
C17_FoundationAccepts ==
    \A id \in FOUNDATIONS, pile \in Piles(table), card \in Cards :
        foundation_can_accept_card(id, pile, card) <=>
            \/ pile = <<>> /\ card.rank = Ace /\ card.suit = PinnedSuit(id)
            \/ /\ pile # <<>>
               /\ card.suit = pile[Len(pile)].suit
               /\ card.rank = pile[Len(pile)].rank + 1

\* C17 witness: one Foundation is empty, another holds cards below its King,
\* and each accepts a card that lies on top of the Waste or of a Tableau.
C17_Witness ==
    LET tops == {top_card(get_stack(table, id)) :
                    id \in {i \in {Waste} \cup TABLEAUX : get_stack(table, i) # <<>>}}
    IN  /\ \E id \in FOUNDATIONS, card \in tops :
              /\ get_stack(table, id) = <<>>
              /\ foundation_can_accept_card(id, get_stack(table, id), card)
        /\ \E id \in FOUNDATIONS, card \in tops :
              /\ get_stack(table, id) # <<>>
              /\ foundation_can_accept_card(id, get_stack(table, id), card)

\* C18: tableau_can_accept_card is true exactly when the Tableau is empty
\* and the card is a King, or the Tableau is not empty and the card has the
\* other colour than its top card and the top card's rank minus one.  For a
\* run the answer is that for the run's bottom card, the card at the source
\* index, whatever the number of cards moving (a run holds 1..NumRanks
\* cards): a face-up card of a Tableau is offered as the source of a move to
\* a Tableau exactly when that Tableau accepts that card.
C18_TableauAccepts ==
    /\ \A pile \in Piles(table), card \in Cards :
          tableau_can_accept_card(pile, card) <=>
              \/ pile = <<>> /\ card.rank = King
              \/ /\ pile # <<>>
                 /\ color(card.suit) # color(pile[Len(pile)].suit)
                 /\ card.rank = pile[Len(pile)].rank - 1
    /\ \A id \in TABLEAUX, card \in Cards, moving_cards_count \in 1..NumRanks :
          can_play_card(id, get_stack(table, id), card, moving_cards_count)
              = tableau_can_accept_card(get_stack(table, id), card)
    /\ LET generated == Generated(table)
       IN  \A id \in TABLEAUX, target \in TABLEAUX :
               \A i \in 0..(Len(get_stack(table, id)) - 1) :
                   get_stack(table, id)[i + 1].face_up =>
                       (MoveCards(Source(id, i), target) \in generated
                            <=> tableau_can_accept_card(get_stack(table, target),
                                                        get_stack(table, id)[i + 1]))

\* C18 witness: the generator offers a run of two or more cards to a
\* non-empty Tableau and a King to an empty Tableau.
C18_Witness ==
    LET generated == Generated(table)
    IN  /\ \E p \in generated :
              /\ p.kind = "MoveCards"
              /\ p.target \in TABLEAUX
              /\ p.source.stack \in TABLEAUX
              /\ RunLength(table, p.source) >= 2
              /\ get_stack(table, p.target) # <<>>
        /\ \E p \in generated :
              /\ p.kind = "MoveCards"
              /\ p.target \in TABLEAUX
              /\ get_stack(table, p.target) = <<>>
              /\ CardAt(table, p.source).rank = King

\* ------------------------------------------------------ effect of a move
\* C19: applying a generated MoveCards(source, target) with make_move takes
\* exactly the cards from source.index on off the source pile, puts them in
\* the same order on top of the target pile (the first at the target's
\* previous length), turns the source pile's new top card face-up, leaves the
\* Hand empty and leaves every other pile and every other card's face
\* unchanged.
C19_MoveEffect ==
    \A p \in Generated(table) :
        p.kind = "MoveCards" =>
            LET moved == make_move(p, table)
                before == get_stack(table, p.source.stack)
                index == p.source.index
                onto == get_stack(table, p.target)
            IN  /\ moved # Panic
                /\ p.source.stack # p.target
                /\ index < Len(before)
                /\ Len(get_stack(moved, p.source.stack)) = index
                /\ \A i \in 1..(index - 1) :
                      get_stack(moved, p.source.stack)[i] = before[i]
                /\ index > 0 =>
                      get_stack(moved, p.source.stack)[index] = FaceUp(before[index])
                /\ Len(get_stack(moved, p.target)) = Len(onto) + Len(before) - index
                /\ \A i \in 1..Len(onto) : get_stack(moved, p.target)[i] = onto[i]
                /\ \A i \in 1..(Len(before) - index) :
                      get_stack(moved, p.target)[Len(onto) + i] = before[index + i]
                /\ moved.in_hand = <<>>
                /\ \A id \in StackIds \ {p.source.stack, p.target} :
                      get_stack(moved, id) = get_stack(table, id)

\* C19 witness: the generator offers a move of a run of two or more cards
\* that lies on a face-down card, which the move turns face-up.
C19_Witness ==
    \E p \in Generated(table) :
        /\ p.kind = "MoveCards"
        /\ p.source.stack \in TABLEAUX
        /\ p.source.index > 0
        /\ RunLength(table, p.source) >= 2
        /\ ~get_stack(table, p.source.stack)[p.source.index].face_up
        /\ top_card(get_stack(make_move(p, table), p.source.stack)).face_up

\* ------------------------------------------------------ the recycle filter
\* the candidates the search of the last frame pops, the accepted one
\* included
Popped(nodes) ==
    LET candidates == nodes[Len(nodes)].weighted_plays
    IN  {candidates[i].play :
            i \in (Len(LastSearch(nodes).weighted_plays) + 1)..Len(candidates)}

\* the plays from the root to the last frame, the play that reached the
\* last frame included
PathPlays(nodes) == PreviousPlays(nodes) \o <<nodes[Len(nodes)].play>>

\* scanning plays backward, a play other than a draw or a recycle is met
\* before any recycle
NonDrawBeforeRecycle(plays) ==
    \E i \in 1..Len(plays) :
        /\ ~IsDrawOrRecycle(plays[i])
        /\ \A j \in (i + 1)..Len(plays) : plays[j] = DrawFromStock

\* C20 (as claimed): when a frame is expanded, a RecycleWaste candidate is
\* accepted exactly when the backward scan of the complete sequence of plays
\* from the root to that frame, the frame's own play included, meets a play
\* other than a draw or a recycle before any recycle; so it is accepted at
\* every frame that was reached by a MoveCards.
C20_RecycleFilterSeesWholePath ==
    (pc = "loop" /\ search_nodes # <<>> /\ RecycleWaste \in Popped(search_nodes)) =>
        LET node == search_nodes[Len(search_nodes)]
            accepted == filter_play(node, RecycleWaste,
                                    PreviousPlays(search_nodes)) # Nothing
        IN  /\ accepted <=> NonDrawBeforeRecycle(PathPlays(search_nodes))
            /\ node.play.kind = "MoveCards" => accepted

\* ------------------------------------------------- paths on the frame stack
\* the plays by which the frames of the stack were reached, root first
StackPlays(nodes) == [i \in 1..Len(nodes) |-> nodes[i].play]

\* C21: no draw/recycle loop.  On the path from the root to any frame of the
\* stack two RecycleWaste plays are always separated by at least one
\* MoveCards play.
C21_NoDrawRecycleLoop ==
    LET plays == StackPlays(search_nodes)
    IN  \A i, j \in 1..Len(plays) :
            (i < j /\ plays[i] = RecycleWaste /\ plays[j] = RecycleWaste) =>
                \E k \in (i + 1)..(j - 1) : plays[k].kind = "MoveCards"

\* C21 witness: a path on the stack that recycles twice, and a frame at
\* which a RecycleWaste candidate was popped and turned down.
C21_Witness ==
    /\ pc = "loop"
    /\ search_nodes # <<>>
    /\ Cardinality({i \in 1..Len(search_nodes) :
                       search_nodes[i].play = RecycleWaste}) >= 2
    /\ RecycleWaste \in Popped(search_nodes)
    /\ filter_play(search_nodes[Len(search_nodes)], RecycleWaste,
                   PreviousPlays(search_nodes)) = Nothing

\* ------------------------------------------------------- the move filter
\* whether the filter lets a candidate of the last frame through
Accepted(nodes, p) ==
    filter_play(nodes[Len(nodes)], p, PreviousPlays(nodes)) # Nothing

\* the play lifts a King that lies at position 0 of a Tableau
LiftsBottomKing(t, p) ==
    /\ p.kind = "MoveCards"
    /\ p.source.stack \in TABLEAUX
    /\ p.source.index = 0
    /\ get_stack(t, p.source.stack)[1].rank = King

\* the play lifts from a Tableau position above 0 that is not the lift point
LiftsAboveLiftPoint(t, p) ==
    /\ p.kind = "MoveCards"
    /\ p.source.stack \in TABLEAUX
    /\ p.source.index > 0
    /\ p.source.index # LiftPoint(get_stack(t, p.source.stack))

FoundationSource(p) == p.kind = "MoveCards" /\ p.source.stack \in FOUNDATIONS

FoundationTarget(p) == p.kind = "MoveCards" /\ p.target \in FOUNDATIONS

\* the frames below the root, each with the table its play was applied to
AppliedFrames(nodes) == 2..Len(nodes)

\* C22 (as claimed): the filter rejects every generated move that lifts a
\* King from position 0 of a Tableau, and no frame is reached by one.
C22_BottomKingNeverLifted ==
    search_nodes # <<>> =>
        /\ \A p \in Generated(search_nodes[Len(search_nodes)].table) :
              LiftsBottomKing(search_nodes[Len(search_nodes)].table, p)
                  => ~Accepted(search_nodes, p)
        /\ \A i \in AppliedFrames(search_nodes) :
              ~LiftsBottomKing(search_nodes[i - 1].table, search_nodes[i].play)

\* C22 (amended): the filter rejects every generated move that lifts a King
\* from position 0 of a Tableau to a Tableau and accepts every generated
\* move onto a Foundation, a King from position 0 of a Tableau included; no
\* frame is reached by a play that lifts a King from position 0 of a Tableau
\* to a Tableau.
C22_BottomKingOnlyToFoundation ==
    search_nodes # <<>> =>
        /\ \A p \in Generated(search_nodes[Len(search_nodes)].table) :
              LiftsBottomKing(search_nodes[Len(search_nodes)].table, p)
                  => (Accepted(search_nodes, p) <=> FoundationTarget(p))
        /\ \A i \in AppliedFrames(search_nodes) :
              LiftsBottomKing(search_nodes[i - 1].table, search_nodes[i].play)
                  => FoundationTarget(search_nodes[i].play)

\* C22 witness: the generator offers the last frame a King at position 0 of
\* a Tableau for another Tableau, and a frame of the stack was reached by
\* promoting a King from position 0 of a Tableau.
C22_Witness ==
    /\ search_nodes # <<>>
    /\ \E p \in Generated(search_nodes[Len(search_nodes)].table) :
          /\ LiftsBottomKing(search_nodes[Len(search_nodes)].table, p)
          /\ p.target \in TABLEAUX
    /\ \E i \in AppliedFrames(search_nodes) :
          LiftsBottomKing(search_nodes[i - 1].table, search_nodes[i].play)

\* C23 (as claimed): the filter rejects every generated move that lifts from
\* a Tableau position above 0 other than the lift point, and every frame
\* reached by a move from a Tableau was reached by one from the lift point.
C23_OnlyLiftPointLifted ==
    search_nodes # <<>> =>
        /\ \A p \in Generated(search_nodes[Len(search_nodes)].table) :
              LiftsAboveLiftPoint(search_nodes[Len(search_nodes)].table, p)
                  => ~Accepted(search_nodes, p)
        /\ \A i \in AppliedFrames(search_nodes) :
              (search_nodes[i].play.kind = "MoveCards"
                  /\ search_nodes[i].play.source.stack \in TABLEAUX) =>
                  search_nodes[i].play.source.index
                      = LiftPoint(get_stack(search_nodes[i - 1].table,
                                            search_nodes[i].play.source.stack))

\* C23 (amended): the filter rejects every generated move to a Tableau that
\* lifts from a Tableau position above 0 other than the lift point, and
\* accepts every generated move onto a Foundation, the top card of a longer
\* face-up run included; every frame reached by a move from a Tableau to a
\* Tableau was reached by one from the lift point.
C23_OnlyLiftPointLiftedToTableau ==
    search_nodes # <<>> =>
        /\ \A p \in Generated(search_nodes[Len(search_nodes)].table) :
              LiftsAboveLiftPoint(search_nodes[Len(search_nodes)].table, p)
                  => (Accepted(search_nodes, p) <=> FoundationTarget(p))
        /\ \A i \in AppliedFrames(search_nodes) :
              (/\ search_nodes[i].play.kind = "MoveCards"
               /\ search_nodes[i].play.source.stack \in TABLEAUX
               /\ search_nodes[i].play.target \in TABLEAUX) =>
                  search_nodes[i].play.source.index
                      = LiftPoint(get_stack(search_nodes[i - 1].table,
                                            search_nodes[i].play.source.stack))

\* C23 witness: the generator offers the last frame a move to a Tableau from
\* above the lift point, and a frame of the stack was reached by promoting
\* the top card of a longer face-up run.
C23_Witness ==
    /\ search_nodes # <<>>
    /\ \E p \in Generated(search_nodes[Len(search_nodes)].table) :
          /\ LiftsAboveLiftPoint(search_nodes[Len(search_nodes)].table, p)
          /\ p.target \in TABLEAUX
    /\ \E i \in AppliedFrames(search_nodes) :
          LiftsAboveLiftPoint(search_nodes[i - 1].table, search_nodes[i].play)

\* C24: no promotion is undone in the search.  The filter rejects every
\* generated move whose source is a Foundation, no frame of the stack was
\* reached by one, and from a frame to the next no Foundation loses a card.
C24_NoPromotionUndone ==
    search_nodes # <<>> =>
        /\ \A p \in Generated(search_nodes[Len(search_nodes)].table) :
              FoundationSource(p) => ~Accepted(search_nodes, p)
        /\ \A i \in AppliedFrames(search_nodes) :
              /\ ~FoundationSource(search_nodes[i].play)
              /\ \A f \in 1..4 :
                    Len(search_nodes[i].table.foundations[f])
                        >= Len(search_nodes[i - 1].table.foundations[f])

\* C24 witness: the generator offers the last frame a move from a
\* Foundation, and cards have been promoted on the way there.
C24_Witness ==
    /\ search_nodes # <<>>
    /\ \E p \in Generated(search_nodes[Len(search_nodes)].table) : FoundationSource(p)
    /\ \E i \in AppliedFrames(search_nodes) : FoundationTarget(search_nodes[i].play)

\* ------------------------------------------------------ the order of trial
\* how often x occurs in a sequence
Occurrences(seq, x) == Cardinality({i \in 1..Len(seq) : seq[i] = x})

\* the generator's output for a table, each play with its weight, unsorted
Candidates(t) ==
    LET plays == PlayIterator(t)
    IN  [i \in 1..Len(plays) |-> WeightedPlay_new(plays[i], t)]

\* (score, priority) compared lexicographically
StrictlyGreater(a, b) ==
    a.score > b.score \/ (a.score = b.score /\ a.priority > b.priority)

\* the candidates of a frame that were already popped: those of the
\* generator's output that are no longer in the frame's list
Tried(node) ==
    LET all == Candidates(node.table)
    IN  {w \in {all[i] : i \in 1..Len(all)} :
            Occurrences(node.weighted_plays, w) < Occurrences(all, w)}

Untried(node) == {node.weighted_plays[i] : i \in 1..Len(node.weighted_plays)}

\* C25: best-first order within a frame.  For every frame of the stack the
\* candidates not yet tried are candidates of the generator's output for
\* the frame's table, none more often than the generator yields it, none
\* of them is strictly greater than a candidate already tried, and the
\* next to be tried (the last of the list) is a greatest of them.
C25_BestFirst ==
    \A i \in 1..Len(search_nodes) :
        LET node == search_nodes[i]
            all == Candidates(node.table)
            rest == node.weighted_plays
        IN  /\ \A k \in 1..Len(rest) :
                  /\ Occurrences(rest, rest[k]) <= Occurrences(all, rest[k])
                  /\ Occurrences(rest, rest[k]) = 1
                  /\ ~StrictlyGreater(rest[k], rest[Len(rest)])
            /\ \A k \in 1..Len(all) : Occurrences(all, all[k]) = 1
            /\ \A u \in Untried(node) : \A w \in Tried(node) : ~StrictlyGreater(u, w)

\* C25 witness: a frame has tried candidates of two different weights and
\* still has candidates left, one strictly below every candidate tried and
\* two that differ in priority only.
C25_Witness ==
    \E i \in 1..Len(search_nodes) :
        LET node == search_nodes[i]
        IN  /\ \E v, w \in Tried(node) : StrictlyGreater(v, w)
            /\ \E u \in Untried(node) : \A w \in Tried(node) : StrictlyGreater(w, u)
            /\ \E u, v \in Untried(node) : u.score = v.score /\ u.priority # v.priority

\* ------------------------------------------------------------ the weights
\* the card a MoveCards play lifts
Lifted(t, p) == get_stack(t, p.source.stack)[p.source.index + 1]

\* C26: the weight table.  For every play generated on a reachable table:
\* (5, 0) onto a Foundation whatever the source, (5, 1) for a non-King from
\* the Waste to a Tableau, (0, source index + 1) for a Tableau-to-Tableau
\* move from the lift point, (-10, 0) from a Foundation to a Tableau, and
\* (0, 0) for DrawFromStock and RecycleWaste.
C26_Weights ==
    LET g == Generated(table)
    IN  \A p \in g :
            LET w == WeightedPlay_new(p, table)
            IN  /\ p.kind \in {"DrawFromStock", "RecycleWaste"}
                      => (w.score = 0 /\ w.priority = 0)
                /\ FoundationTarget(p) => (w.score = 5 /\ w.priority = 0)
                /\ (/\ p.kind = "MoveCards"
                    /\ p.source.stack = Waste
                    /\ p.target \in TABLEAUX
                    /\ Lifted(table, p).rank # King)
                      => (w.score = 5 /\ w.priority = 1)
                /\ (/\ p.kind = "MoveCards"
                    /\ p.source.stack \in TABLEAUX
                    /\ p.target \in TABLEAUX
                    /\ p.source.index = LiftPoint(get_stack(table, p.source.stack)))
                      => (w.score = 0 /\ w.priority = p.source.index + 1)
                /\ (FoundationSource(p) /\ p.target \in TABLEAUX)
                      => (w.score = -10 /\ w.priority = 0)

\* C26 witness: one table offers a draw, a promotion from a Tableau, a
\* non-King from the Waste for a Tableau, a Tableau-to-Tableau move from a
\* lift point above position 0 and a Foundation-to-Tableau move.
C26_Witness ==
    LET g == Generated(table)
    IN  /\ DrawFromStock \in g
        /\ \E p \in g : FoundationTarget(p) /\ p.source.stack \in TABLEAUX
        /\ \E p \in g : /\ p.kind = "MoveCards"
                        /\ p.source.stack = Waste
                        /\ p.target \in TABLEAUX
                        /\ Lifted(table, p).rank # King
        /\ \E p \in g : /\ p.kind = "MoveCards"
                        /\ p.source.stack \in TABLEAUX
                        /\ p.target \in TABLEAUX
                        /\ p.source.index > 0
                        /\ p.source.index = LiftPoint(get_stack(table, p.source.stack))
        /\ \E p \in g : FoundationSource(p) /\ p.target \in TABLEAUX

\* ------------------------------------------------- a King from the Waste
\* the generated moves of a King from the Waste to a Tableau
WasteKingMoves(t) ==
    {p \in Generated(t) : /\ p.kind = "MoveCards"
                          /\ p.source.stack = Waste
                          /\ p.target \in TABLEAUX
                          /\ Lifted(t, p).rank = King}

\* where the Queen of a suit lies
QueenLocations(t, suit) == Locations(t, Queen, suit)

\* C27 (as claimed): a King from the Waste to a Tableau weighs (5, 99) when
\* no Queen of its suit is on the table, else (5, 1) when that Queen is
\* face-up and (5, -1) when she is face-down, wherever she lies.
C27_WasteKingByFace ==
    \A p \in WasteKingMoves(table) :
        LET w == WeightedPlay_new(p, table)
            queens == QueenLocations(table, Lifted(table, p).suit)
        IN  /\ w.score = 5
            /\ queens = {} => w.priority = 99
            /\ \A q \in queens :
                  w.priority = IF CardAt(table, q).face_up THEN 1 ELSE -1

\* C27 (amended): a King from the Waste to a Tableau weighs (5, -1) when the
\* Queen of its suit lies face-down in a Tableau and (5, 1) when she lies
\* anywhere else, face-up or not; the Queen is always on the table, so the
\* priority 99 of a missing Queen is never assigned.
C27_WasteKingByTableauFace ==
    \A p \in WasteKingMoves(table) :
        LET w == WeightedPlay_new(p, table)
            queens == QueenLocations(table, Lifted(table, p).suit)
        IN  /\ w.score = 5
            /\ Cardinality(queens) = 1
            /\ \A q \in queens :
                  w.priority = IF q.stack \in TABLEAUX /\ ~CardAt(table, q).face_up
                               THEN -1
                               ELSE 1

\* C27 witness: a King of the Waste can go to a Tableau while the Queen of
\* its suit lies face-down in the Stock.
C27_Witness ==
    \E p \in WasteKingMoves(table) :
        \E q \in QueenLocations(table, Lifted(table, p).suit) :
            q.stack = Stock /\ ~CardAt(table, q).face_up

\* ------------------------------------------------------- frame snapshots
\* a is b without some of its last elements
IsPrefix(a, b) == Len(a) <= Len(b) /\ a = SubSeq(b, 1, Len(a))

\* what a frame keeps for life
Snapshot(node) == <<node.parent, node.index, node.play, node.table>>

\* every frame holds the table its play makes of its parent's table; the
\* root holds the dealt table
SnapshotsAsCreated ==
    \A i \in 1..Len(search_nodes) :
        IF i = 1
        THEN Snapshot(search_nodes[i]) = <<None, 0, Setup, table>>
        ELSE /\ search_nodes[i].parent = i - 2
             /\ search_nodes[i].index = i - 1
             /\ search_nodes[i].table
                    = make_move(search_nodes[i].play, search_nodes[i - 1].table)

\* one step of the loop on the frames that stay on the stack: none changes
\* its snapshot, only the last frame of before loses candidates, and those
\* from the end of its list
FramesKept ==
    \A i \in 1..Len(search_nodes) :
        i <= Len(search_nodes') =>
            /\ Snapshot(search_nodes'[i]) = Snapshot(search_nodes[i])
            /\ IsPrefix(search_nodes'[i].weighted_plays, search_nodes[i].weighted_plays)
            /\ i < Len(search_nodes) =>
                  search_nodes'[i].weighted_plays = search_nodes[i].weighted_plays

\* C28: frame snapshots are immutable.  A frame's table is the one it was
\* created with as long as the frame is on the stack; expanding it and
\* pushing or popping descendants leave its table alone, and a frame to
\* which the search backtracks has exactly the candidates it had not tried.
C28_FramesImmutable ==
    []SnapshotsAsCreated /\ [][FramesKept]_vars

\* C28 witness: the search is back at a frame below the root after the
\* frame of one of its children was popped, and the frame has candidates
\* left.
C28_Witness ==
    /\ pc = "loop"
    /\ Len(search_nodes) >= 2
    /\ search_nodes[Len(search_nodes)].weighted_plays # <<>>
    /\ \E t \in tables :
          /\ \A i \in 1..Len(search_nodes) : search_nodes[i].table # t
          /\ \E w \in Tried(search_nodes[Len(search_nodes)]) :
                t = make_move(w.play, search_nodes[Len(search_nodes)].table)

\* ---------------------------------------------------------------- cursor
\* the result of a call whose loop never ends
Loops == [loops |-> TRUE]

\* Stack::foundation_can_accept_hand
foundation_can_accept_hand(id, cards, hand) ==
    IF Len(hand) > 1 THEN FALSE
    ELSE IF hand # <<>> THEN foundation_can_accept_card(id, cards, top_card(hand))
    ELSE FALSE

\* Stack::tableau_can_accept_hand
tableau_can_accept_hand(cards, hand) ==
    IF hand # <<>> THEN tableau_can_accept_card(cards, bottom_card(hand))
    ELSE FALSE

\* Stack::can_play
can_play(id, cards, hand) ==
    IF stack_type(id) = "Foundation" THEN foundation_can_accept_hand(id, cards, hand)
    ELSE IF stack_type(id) = "Tableau" THEN tableau_can_accept_hand(cards, hand)
    ELSE FALSE

\* the loop of Table::next_play_location from a target on; after a round
\* of all the ids without a break the loop is where it was and never ends
RECURSIVE NextPlayLocationFrom(_, _, _)
NextPlayLocationFrom(t, target, round) ==
    IF round > Cardinality(StackIds) THEN Loops
    ELSE IF can_play(target, get_stack(t, target), t.in_hand) THEN target
    ELSE IF next(target) = t.source.stack THEN next(target)
    ELSE NextPlayLocationFrom(t, next(target), round + 1)

\* Table::next_play_location
next_play_location(t) == NextPlayLocationFrom(t, next(t.target), 1)

\* the loop of Table::next_active_card from a pile on; after a round of
\* all the ids without a card the loop is where it was and never ends
RECURSIVE NextActiveCardFrom(_, _, _, _)
NextActiveCardFrom(t, stack, start, round) ==
    IF round > Cardinality(StackIds) THEN Loops
    ELSE LET next_index == next_active_card(stack, get_stack(t, stack), start)
         IN  IF next_index # None
             THEN Source(stack, next_index)
             ELSE NextActiveCardFrom(t, next(stack), None, round + 1)

\* Table::next_active_card: the next active card from the cursor on
table_next_active_card(t) ==
    NextActiveCardFrom(t, t.source.stack, t.source.index, 0)

\* Table::go_next
go_next(t) ==
    IF cards_in_hand(t)
    THEN IF next_play_location(t) = Loops THEN Loops
         ELSE [t EXCEPT !.target = next_play_location(t)]
    ELSE IF table_next_active_card(t) = Loops THEN Loops
         ELSE [t EXCEPT !.source = table_next_active_card(t)]

\* A table reached by generated plays, at most MaxCursorPlays of them, and
\* then the cursor moved over it with go_next again and again.
CursorInit ==
    /\ \E seed \in Seeds : table = new_table(seed)
    /\ NoSearch

CursorPlay ==
    /\ pc = "play"
    /\ iterations < MaxCursorPlays
    /\ \E p \in Generated(table) : table' = make_move(p, table)
    /\ iterations' = iterations + 1
    /\ UNCHANGED <<pc, search_nodes, tables, outcome, reported>>

CursorGoNext ==
    /\ pc \in {"play", "cursor"}
    /\ go_next(table) # Loops
    /\ table' = go_next(table)
    /\ pc' = "cursor"
    /\ UNCHANGED <<search_nodes, tables, iterations, outcome, reported>>

CursorNext ==
    \/ CursorPlay
    \/ CursorGoNext

CursorSpec == CursorInit /\ [][CursorNext]_vars

\* the table after n calls of go_next
RECURSIVE GoNextTimes(_, _)
GoNextTimes(t, n) ==
    IF n = 0 THEN t
    ELSE LET before == GoNextTimes(t, n - 1)
         IN  IF before = Loops THEN Loops ELSE go_next(before)

\* no cycle of the cursor is longer than one location per card and the Stock
CycleBound == DeckSize + 1

\* C29: the cursor cycle.  On a table with an empty Hand every call of
\* go_next returns, the cursor comes by the Stock when the Stock holds
\* cards, and it returns to the location it is at now.
C29_CursorCycle ==
    ~cards_in_hand(table) =>
        LET orbit == [n \in 0..CycleBound |-> GoNextTimes(table, n)]
        IN  /\ \A n \in 0..CycleBound : orbit[n] # Loops
            /\ \E n \in 1..CycleBound : orbit[n].source = table.source
            /\ table.stock # <<>> =>
                  \E n \in 1..CycleBound : orbit[n].source.stack = Stock

\* ---------------------------------------------------------- exposed tops
\* C30: in every table reachable from Table::new by generated plays, every
\* Tableau that holds cards has its top card face-up, and so has a lift
\* point.
C30_ExposedTops ==
    \A k \in 1..NumTableaux :
        table.tableaux[k] # <<>> =>
            /\ top_card(table.tableaux[k]).face_up
            /\ LiftPoint(table.tableaux[k]) \in 0..(Len(table.tableaux[k]) - 1)

\* C30 witness: a move has taken the whole face-up run off a Tableau, the
\* card below it was turned, and face-down cards still lie under that one.
C30_Witness ==
    \E k \in 1..NumTableaux :
        /\ Len(table.tableaux[k]) >= 2
        /\ Len(table.tableaux[k]) < k
        /\ LiftPoint(table.tableaux[k]) = Len(table.tableaux[k]) - 1
        /\ ~table.tableaux[k][1].face_up

\* ------------------------------------------------------- table structure
\* C31: valid runs.  In every reachable table any two face-up cards of a
\* Tableau that lie one on the other have different colours, and the upper
\* card's rank is one less than the lower card's.
C31_ValidRuns ==
    \A k \in 1..NumTableaux :
        LET cards == table.tableaux[k]
        IN  \A i \in 1..(Len(cards) - 1) :
                (cards[i].face_up /\ cards[i + 1].face_up) =>
                    /\ color(cards[i].suit) # color(cards[i + 1].suit)
                    /\ cards[i + 1].rank + 1 = cards[i].rank

\* C31 witness: a Tableau holds a face-up run from the King down to the
\* Ace, and another holds a face-up card on a face-down one.
C31_Witness ==
    /\ \E k \in 1..NumTableaux :
          /\ Len(table.tableaux[k]) >= NumRanks
          /\ \A i \in 1..NumRanks :
                table.tableaux[k][Len(table.tableaux[k]) + 1 - i].face_up
    /\ \E k \in 1..NumTableaux :
          /\ Len(table.tableaux[k]) >= 2
          /\ ~table.tableaux[k][1].face_up

\* the size of the Stock after the deal
DealtStockSize == DeckSize - (NumTableaux * (NumTableaux + 1)) \div 2

\* C32: orientation.  In every reachable table every Stock card is
\* face-down, every Waste card and every Foundation card is face-up, and
\* the Hand is empty.
C32_Orientation ==
    /\ \A i \in 1..Len(table.stock) : ~table.stock[i].face_up
    /\ \A i \in 1..Len(table.waste) : table.waste[i].face_up
    /\ \A f \in 1..4 : \A i \in 1..Len(table.foundations[f]) :
          table.foundations[f][i].face_up
    /\ table.in_hand = <<>>

\* C32 witness: the Waste was recycled into the Stock after a card of it was
\* played (the Stock has a size no draw from the dealt Stock leaves), cards
\* were drawn again and a Foundation holds cards.
C32_Witness ==
    /\ Len(table.stock) + Len(table.waste) < DealtStockSize
    /\ (DealtStockSize - Len(table.stock)) % DealAmount # 0
    /\ table.stock # <<>>
    /\ table.waste # <<>>
    /\ \E f \in 1..4 : table.foundations[f] # <<>>

\* C33: Foundation structure.  In every reachable table each Foundation
\* holds only cards of the suit pinned to it and, bottom to top, the ranks
\* Ace, Two, ... up to its size.
C33_FoundationStructure ==
    \A f \in 1..4 :
        \A i \in 1..Len(table.foundations[f]) :
            /\ table.foundations[f][i].suit = PinnedSuit(Foundation1 + f - 1)
            /\ table.foundations[f][i].rank = Ace + i - 1

\* C33 witness: one Foundation is complete up to the King and two others
\* hold cards.
C33_Witness ==
    /\ \E f \in 1..4 : Len(table.foundations[f]) = NumRanks
    /\ Cardinality({f \in 1..4 : table.foundations[f] # <<>>}) >= 3

\* ------------------------------------------------------ degenerate moves
\* C34: no degenerate moves.  For every reachable table the generator
\* yields no MoveCards whose target is its source pile, none whose source is
\* the Stock or the Hand, none whose target is the Stock, the Waste or the
\* Hand, and no (source, target) pair twice.
C34_NoDegenerateMoves ==
    LET plays == PlayIterator(table)
    IN  /\ \A i \in 1..Len(plays) :
              plays[i].kind = "MoveCards" =>
                  /\ plays[i].target # plays[i].source.stack
                  /\ plays[i].source.stack \notin {Stock, Hand}
                  /\ plays[i].target \notin {Stock, Waste, Hand}
        /\ \A i, j \in 1..Len(plays) :
              (i < j /\ plays[i].kind = "MoveCards") => plays[i] # plays[j]

\* C34 witness: the generator yields two targets for one source, two
\* sources for one target, and two sources of one Tableau.
C34_Witness ==
    LET g == {p \in Generated(table) : p.kind = "MoveCards"}
    IN  /\ \E p, q \in g : p.source = q.source /\ p.target # q.target
        /\ \E p, q \in g : p.source # q.source /\ p.target = q.target
        /\ \E p, q \in g : /\ p.source.stack = q.source.stack
                           /\ p.source.index # q.source.index

\* --------------------------------------------------- tables along a path
\* the frames i < j of the stack hold equal tables
SameTable(i, j) ==
    /\ i < j
    /\ search_nodes[i].table = search_nodes[j].table

\* C35 (as claimed): no two frames of the frame stack hold equal tables.
C35_NoRepeatedTable ==
    \A i, j \in 1..Len(search_nodes) : ~SameTable(i, j)

\* C35 (amended): two frames of the frame stack hold equal tables only when
\* the plays from the one to the other are draws and exactly one recycle
\* (the Stock dealt out and put back with no card played in between), and
\* no table is held by three frames.
C35_RepeatOnlyByRecycle ==
    /\ \A i, j \in 1..Len(search_nodes) :
          SameTable(i, j) =>
              /\ \A k \in (i + 1)..j : IsDrawOrRecycle(search_nodes[k].play)
              /\ Cardinality({k \in (i + 1)..j :
                                 search_nodes[k].play = RecycleWaste}) = 1
    /\ \A i, j, k \in 1..Len(search_nodes) :
          ~(SameTable(i, j) /\ SameTable(j, k))

\* C35 witness: a frame below the root holds the table of a frame further
\* down the stack, and the search went on from there.
C35_Witness ==
    \E i, j \in 1..Len(search_nodes) :
        /\ SameTable(i, j)
        /\ i > 1
        /\ j < Len(search_nodes)

\* ------------------------------------------------ paths of accepted plays
\* Any path of filter-accepted plays from the root, whatever the order of
\* the candidates: the frame the path has reached, with the plays of its
\* parents as far back as filter_play reads them (its scan stops at the
\* last play that is not a draw).  No counter cuts a path short.
RECURSIVE Visible(_)
Visible(plays) ==
    IF plays = <<>> THEN <<>>
    ELSE IF plays[Len(plays)].kind = "DrawFromStock"
    THEN Visible(SubSeq(plays, 1, Len(plays) - 1)) \o <<plays[Len(plays)]>>
    ELSE <<plays[Len(plays)]>>

\* the frame a path is at
PathNode == search_nodes[1]

\* the candidates of the frame the path is at that the filter accepts
PathAccepted ==
    LET candidates == Generated(PathNode.table)
    IN  {p \in candidates : filter_play(PathNode, p, reported) # Nothing}

\* the children of the frame the path is at: one per accepted candidate
PathChildren ==
    {SearchNode_new(None, 0, p, make_move(p, PathNode.table)) : p \in PathAccepted}

PathSeeds == 0..MaxPathSeed

PathInit ==
    /\ \E seed \in PathSeeds : table = new_table(seed)
    /\ pc = "path"
    /\ search_nodes = <<SearchNode_new(None, 0, Setup, table)>>
    /\ reported = <<>>
    /\ tables = {}
    /\ iterations = 0
    /\ outcome = {}

\* the path goes on with an accepted play that does not win
PathExpand ==
    /\ pc = "path"
    /\ \E child \in PathChildren :
          /\ ~winner(child.table)
          /\ search_nodes' = <<child>>
    /\ reported' = Visible(Append(reported, PathNode.play))
    /\ UNCHANGED <<table, pc, tables, iterations, outcome>>

\* the path ends with a play that wins
PathWin ==
    /\ pc = "path"
    /\ \E child \in PathChildren :
          /\ winner(child.table)
          /\ search_nodes' = <<child>>
    /\ reported' = Visible(Append(reported, PathNode.play))
    /\ outcome' = {"Winner"}
    /\ pc' = "end"
    /\ UNCHANGED <<table, tables, iterations>>

\* the path ends at a frame none of whose candidates is accepted
PathExhausted ==
    /\ pc = "path"
    /\ PathAccepted = {}
    /\ pc' = "end"
    /\ UNCHANGED <<table, search_nodes, tables, iterations, outcome, reported>>

PathNext ==
    \/ PathExpand
    \/ PathWin
    \/ PathExhausted

PathSpec == PathInit /\ [][PathNext]_vars

\* a path that can go on goes on: weak fairness of PathNext, written out.
\* PathNext can be taken exactly until the path has ended, and the steps of
\* PathSpec that change the state are the steps of PathNext.
PathFairSpec ==
    PathSpec /\ ([]<>(pc = "end") \/ []<><<TRUE>>_vars)

\* C36: termination without the cap.  Every path of filter-accepted plays
\* from the root ends, with a win or at a frame with no accepted candidate.
C36_PathsEnd ==
    <>(pc = "end")

\* C36 witness: a path has ended without a win at a frame whose RecycleWaste
\* the filter refused, after the Waste had been recycled once before.
C36_Witness ==
    /\ pc = "end"
    /\ outcome = {}
    /\ RecycleWaste \in Generated(PathNode.table)
    /\ filter_play(PathNode, RecycleWaste, reported) = Nothing
    /\ reported[1] = RecycleWaste

\* ------------------------------------------------ the frame stack, a chain
\* the frame at position 0 has no parent; the frame at position i > 0 has
\* index i and parent i - 1; the parent links from the last frame lead
\* through every frame below it, one by one, down to the root
SingleChain ==
    /\ \A i \in 1..Len(search_nodes) :
          /\ search_nodes[i].index = i - 1
          /\ search_nodes[i].parent = IF i = 1 THEN None ELSE i - 2
    /\ search_nodes # <<>> =>
          Parents(search_nodes, Len(search_nodes) - 1)
              = [i \in 1..(Len(search_nodes) - 1) |-> Len(search_nodes) - 1 - i]

\* one iteration of the loop: one frame is pushed on the frames there were,
\* or the last frame is popped, or the search ends
PushPopOrEnd ==
    (pc = "loop" /\ search_nodes # <<>>) =>
        \/ /\ Len(search_nodes') = Len(search_nodes) + 1
           /\ \A i \in 1..Len(search_nodes) :
                 Snapshot(search_nodes'[i]) = Snapshot(search_nodes[i])
        \/ /\ Len(search_nodes') = Len(search_nodes) - 1
           /\ \A i \in 1..Len(search_nodes') :
                 search_nodes'[i] = search_nodes[i]
        \/ /\ pc' # "loop"
           /\ Len(search_nodes') = Len(search_nodes)

\* C39: the frame stack is a single chain at every step of the search, and
\* each iteration of the loop pushes exactly one frame, pops exactly one
\* frame, or ends the search.
C39_SingleChain ==
    []SingleChain /\ [][PushPopOrEnd]_vars

\* C39 witness: frames were popped, and the last frame of a stack of three
\* or more was pushed after that and has not been searched yet.
C39_Witness ==
    /\ pc = "loop"
    /\ Len(search_nodes) >= 3
    /\ iterations > Len(search_nodes) - 1
    /\ search_nodes[Len(search_nodes)].weighted_plays # <<>>
    /\ Tried(search_nodes[Len(search_nodes)]) = {}

\* ---------------------------------------------------------------- aborts
\* PlayIterator::next indexes the pile of an active card with the card's
\* index: out of the pile the indexing aborts
ActiveCardOutOfPile(t, source) ==
    source.index >= Len(get_stack(t, source.stack))

\* CardPlayIterator::next_legal_play: moving_cards_count is a usize
\* difference and is asserted to be positive
MovingCardsCountFails(t, source) ==
    Len(get_stack(t, source.stack)) - source.index <= 0

\* WeightedPlay::new indexes the Waste with the source index of a move from
\* the Waste to a Tableau
WeightIndexFails(p, t) ==
    /\ p.kind = "MoveCards"
    /\ is_tableau(p.target)
    /\ p.source.stack = Waste
    /\ p.source.index >= Len(t.waste)

\* waste_king_priority indexes the Tableau where find_card saw the Queen
QueenIndexFails(p, t) ==
    /\ p.kind = "MoveCards"
    /\ is_tableau(p.target)
    /\ p.source.stack = Waste
    /\ t.waste[p.source.index + 1].rank = King
    /\ LET queen_card_location == find_card(t, Queen, t.waste[p.source.index + 1].suit)
       IN  /\ queen_card_location # Nothing
           /\ is_tableau(queen_card_location.stack)
           /\ queen_card_location.index
                 >= Len(get_stack(t, queen_card_location.stack))

\* filter_play reads cards[0] of the source pile of a move to a Tableau
\* from position 0 of a pile that is neither a Foundation nor the Waste
FilterIndexFails(node, p) ==
    /\ p.kind = "MoveCards"
    /\ ~is_foundation(p.target)
    /\ ~is_foundation(p.source.stack)
    /\ p.source.stack # Waste
    /\ p.source.index = 0
    /\ get_stack(node.table, p.source.stack) = <<>>

\* the plays handed to the filter when the frame at position i is searched
PlaysBefore(i) == PreviousPlays(SubSeq(search_nodes, 1, i))

\* C37: no abort in the search.  For every frame of the frame stack the
\* generator meets no active card outside its pile and no moving count that
\* is not positive, it never yields Setup, the heuristic and the filter index
\* no card outside its pile, and make_move aborts on no candidate the filter
\* accepts (a draw finds cards in the Stock, a recycle finds it empty).
C37_NoAbort ==
    \A i \in 1..Len(search_nodes) :
        LET node == search_nodes[i]
            t == node.table
            sources == ActiveCards(t)
            plays == PlayIterator(t)
        IN  /\ t # Panic
            /\ \A k \in 1..Len(sources) :
                  /\ ~ActiveCardOutOfPile(t, sources[k])
                  /\ ~MovingCardsCountFails(t, sources[k])
            /\ \A k \in 1..Len(plays) :
                  /\ plays[k] # Setup
                  /\ ~WeightIndexFails(plays[k], t)
                  /\ ~QueenIndexFails(plays[k], t)
                  /\ ~FilterIndexFails(node, plays[k])
                  /\ filter_play(node, plays[k], PlaysBefore(i)) # Nothing
                        => make_move(plays[k], t) # Panic

\* C37 witness: the frames of the stack were reached by a draw, a recycle,
\* a move of a King from the Waste to a Tableau and a move from position 0
\* of a Tableau, and the last frame offers a recycle.
C37_Witness ==
    /\ \E i \in 2..Len(search_nodes) : search_nodes[i].play = DrawFromStock
    /\ \E i \in 2..Len(search_nodes) : search_nodes[i].play = RecycleWaste
    /\ \E i \in 2..Len(search_nodes) :
          /\ search_nodes[i].play.kind = "MoveCards"
          /\ search_nodes[i].play.source.stack = Waste
          /\ is_tableau(search_nodes[i].play.target)
          /\ CardAt(search_nodes[i - 1].table, search_nodes[i].play.source).rank = King
    /\ \E i \in 2..Len(search_nodes) :
          /\ search_nodes[i].play.kind = "MoveCards"
          /\ is_tableau(search_nodes[i].play.source.stack)
          /\ search_nodes[i].play.source.index = 0
    /\ RecycleWaste \in Generated(search_nodes[Len(search_nodes)].table)

\* ------------------------------------------------------------- the deal
\* C38: the initial deal.  For every seed Table::new yields Tableau k
\* (k = 1..NumTableaux) with exactly k cards of which only the top one is
\* face-up, a Stock of the remaining cards all face-down and empty Waste,
\* Foundations and Hand; the cards are pairwise distinct and the generator's
\* output for the table starts with DrawFromStock.  (`table` is the dealt
\* table for the whole of a search.)
C38_InitialDeal ==
    /\ \A k \in 1..NumTableaux :
          /\ Len(table.tableaux[k]) = k
          /\ \A i \in 1..k : table.tableaux[k][i].face_up <=> i = k
    /\ Len(table.stock) = DealtStockSize
    /\ \A i \in 1..Len(table.stock) : ~table.stock[i].face_up
    /\ table.waste = <<>>
    /\ \A f \in 1..4 : table.foundations[f] = <<>>
    /\ table.in_hand = <<>>
    /\ Len(AllCards(table)) = DeckSize
    /\ Cardinality(Faces(AllCards(table))) = DeckSize
    /\ PlayIterator(table)[1] = DrawFromStock

\* C38 witness: the search has just been given a dealt table, the root
\* frame holds it, and the generator offers a draw and moves for it.
C38_Witness ==
    /\ iterations = 0
    /\ Len(search_nodes) = 1
    /\ search_nodes[1].table = table
    /\ search_nodes[1].play = Setup
    /\ Len(PlayIterator(table)) >= 3

\* -------------------------------------------------------- the priority 99
\* C40: the priority 99 is never assigned.  On every reachable table the
\* Queen of every suit is found on the table, waste_king_priority returns 1
\* or -1 for the King of every suit, and no generated play weighs in with
\* priority 99.
C40_NoPriority99 ==
    /\ \A suit \in Suits :
          /\ find_card(table, Queen, suit) # Nothing
          /\ waste_king_priority([suit |-> suit, rank |-> King, face_up |-> TRUE], table)
                \in {1, -1}
    /\ \A w \in {WeightedPlay_new(p, table) : p \in Generated(table)} :
          w.priority # 99

\* C40 witness: a King of the Waste can go to a Tableau while the Queen of
\* its suit lies face-down in a Tableau.
C40_Witness ==
    \E p \in WasteKingMoves(table) :
        \E q \in QueenLocations(table, Lifted(table, p).suit) :
            q.stack \in TABLEAUX /\ ~CardAt(table, q).face_up

====
